---------------------------- MODULE Spec2Model ----------------------------
(***************************************************************************)
(* ultraWrite suggestion-patch engine.                                     *)
(*                                                                         *)
(* Text is a sequence of one-character strings.  The host buffer (the      *)
(* TipTap/ProseMirror document) is modelled at the interface the engine    *)
(* uses: its size, textBetween, and the transaction steps replaceWith,     *)
(* delete and insert, which throw a RangeError for a position outside the  *)
(* document.  Offsets are 0-based and ranges half-open, as in the source.  *)
(***************************************************************************)
EXTENDS Integers, Sequences, FiniteSets, TLC

VARIABLES
    doc,          \* editor.state.doc: the live buffer text
    suggestions,  \* EditorPane's pending suggestions / the list handed to the engine
    call,         \* the operation that ran last and its inputs
    ret,          \* what that operation returned
    pre,          \* the buffer text when that operation started
    dispatched,   \* number of text-changing transactions that operation dispatched
    notice,       \* notificationManager: "none" | "success" | "error"
    paragraphChanges  \* agentStore: pendingEdit.paragraphChanges

vars == <<doc, suggestions, call, ret, pre, dispatched, notice, paragraphChanges>>

-----------------------------------------------------------------------------
(* Bounds of the model *)

MaxDocLen == 3
MaxTextLen == 2
MaxDiffTokens == 5

-----------------------------------------------------------------------------
(* Text *)

Letters == {"a", "b"}
Blanks == {" ", "\t"}
Chars == Letters \cup Blanks

\* all texts over alphabet A of length at most n
TextsUpTo(A, n) == UNION {[1..k -> A] : k \in 0..n}

\* JavaScript \s
isSpace(c) == c \in Blanks

\* s.substring(i, j), 0-based half-open, clamped like String.prototype.substring
substring(s, i, j) ==
    LET lo == IF i < 0 THEN 0 ELSE IF i > Len(s) THEN Len(s) ELSE i
        hi == IF j < 0 THEN 0 ELSE IF j > Len(s) THEN Len(s) ELSE j
    IN  IF lo <= hi THEN SubSeq(s, lo + 1, hi) ELSE SubSeq(s, hi + 1, lo)

\* s.replace(/\s+/g, ' '): every maximal whitespace run becomes one space
RECURSIVE collapseFrom(_, _)
collapseFrom(s, i) ==
    IF i > Len(s) THEN <<>>
    ELSE IF isSpace(s[i])
         THEN IF i > 1 /\ isSpace(s[i - 1])
              THEN collapseFrom(s, i + 1)
              ELSE <<" ">> \o collapseFrom(s, i + 1)
         ELSE <<s[i]>> \o collapseFrom(s, i + 1)

collapseWhitespace(s) == collapseFrom(s, 1)

\* s.trim()
trim(s) ==
    LET solid == {i \in 1..Len(s) : ~isSpace(s[i])}
    IN  IF solid = {} THEN <<>>
        ELSE LET lo == CHOOSE i \in solid : \A j \in solid : i <= j
                 hi == CHOOSE i \in solid : \A j \in solid : j <= i
             IN  SubSeq(s, lo, hi)

\* s.replace(/\s+/g, ' ').trim()
normalizeTrim(s) == trim(collapseWhitespace(s))

\* hay.indexOf(needle): first 0-based index, -1 when absent; 0 for an empty needle
indexOf(hay, needle) ==
    LET hits == {i \in 0..(Len(hay) - Len(needle)) :
                    SubSeq(hay, i + 1, i + Len(needle)) = needle}
    IN  IF hits = {} THEN -1
        ELSE CHOOSE i \in hits : \A j \in hits : i <= j

\* An optional value is a sequence of length 0 (undefined / null) or 1.
None == <<>>
Some(x) == <<x>>

-----------------------------------------------------------------------------
(* Host buffer (ProseMirror document and transaction), interface only *)

contentSize(d) == Len(d)

\* doc.resolve(pos) throws RangeError outside [0, content.size]
resolvable(d, pos) == 0 <= pos /\ pos <= contentSize(d)

\* doc.textBetween(from, to, '\n', ' ')
textBetween(d, from, to) ==
    IF from >= to THEN <<>> ELSE substring(d, from, to)

\* A transaction under construction: the document it has produced so far and how
\* many steps it holds, or the exception a step threw.
Tr(d) == [ok |-> TRUE, doc |-> d, steps |-> 0]
TrThrew == [ok |-> FALSE, doc |-> <<>>, steps |-> 0]

\* tr.replaceWith(from, to, schema.text(text)) / tr.delete(from, to) with text = <<>>:
\* one replace step that keeps [0,from) and [to,end) of the current document;
\* replacing an empty range by nothing adds no step
trReplace(tr, from, to, text) ==
    IF ~tr.ok THEN tr
    ELSE IF ~resolvable(tr.doc, from) \/ ~resolvable(tr.doc, to) THEN TrThrew
    ELSE IF from = to /\ text = <<>> THEN tr
    ELSE [ok |-> TRUE,
          doc |-> SubSeq(tr.doc, 1, from) \o text \o SubSeq(tr.doc, to + 1, Len(tr.doc)),
          steps |-> tr.steps + 1]

\* tr.delete(from, to)
trDelete(tr, from, to) == trReplace(tr, from, to, <<>>)

\* tr.insert(pos, schema.text(text))
trInsert(tr, pos, text) == trReplace(tr, pos, pos, text)

-----------------------------------------------------------------------------
(* Tokenized Diff Generator: diffWordsWithSpace of the diff package (a Myers   *)
(* shortest-edit-script search over word and whitespace-run tokens), then      *)
(* generateWordSuggestions                                                     *)

\* wordDiff.tokenize: maximal runs of word characters and of whitespace
RECURSIVE tokenizeFrom(_, _, _)
tokenizeFrom(s, i, current) ==
    IF i > Len(s) THEN (IF current = <<>> THEN <<>> ELSE <<current>>)
    ELSE IF current = <<>> \/ isSpace(current[1]) = isSpace(s[i])
         THEN tokenizeFrom(s, i + 1, Append(current, s[i]))
         ELSE <<current>> \o tokenizeFrom(s, i + 1, <<s[i]>>)

tokenize(s) == tokenizeFrom(s, 1, <<>>)

\* diff.join(tokens)
RECURSIVE join(_)
join(tokens) == IF tokens = <<>> THEN <<>> ELSE Head(tokens) \o join(Tail(tokens))

Common == "common"
Added == "added"
Removed == "removed"

\* pushComponent(components, added, removed)
pushComponent(components, kind) ==
    IF components # <<>> /\ components[Len(components)].kind = kind
    THEN [components EXCEPT ![Len(components)].count = @ + 1]
    ELSE Append(components, [count |-> 1, kind |-> kind])

\* number of equal tokens following newPos / oldPos on a diagonal
RECURSIVE commonRun(_, _, _, _)
commonRun(newString, oldString, newPos, oldPos) ==
    IF newPos + 1 < Len(newString) /\ oldPos + 1 < Len(oldString)
       /\ newString[newPos + 2] = oldString[oldPos + 2]
    THEN 1 + commonRun(newString, oldString, newPos + 1, oldPos + 1)
    ELSE 0

\* extractCommon(basePath, newString, oldString, diagonalPath): the path advanced
\* along its diagonal (its oldPos is newPos - diagonalPath)
extractCommon(basePath, newString, oldString, diagonalPath) ==
    LET commonCount == commonRun(newString, oldString, basePath.newPos,
                                 basePath.newPos - diagonalPath)
    IN  [live |-> TRUE,
         newPos |-> basePath.newPos + commonCount,
         components |-> IF commonCount > 0
                        THEN Append(basePath.components,
                                    [count |-> commonCount, kind |-> Common])
                        ELSE basePath.components]

NoPath == [live |-> FALSE, newPos |-> 0, components |-> <<>>]

\* execEditLength, one diagonal at a time; returns the components of the first
\* path that reaches the end of both token lists
RECURSIVE execEditLength(_, _, _, _, _)
execEditLength(newString, oldString, editLength, diagonalPath, bestPath) ==
    IF diagonalPath > editLength
    THEN execEditLength(newString, oldString, editLength + 1, -(editLength + 1), bestPath)
    ELSE
    LET addPath == bestPath[diagonalPath - 1]
        removePath == bestPath[diagonalPath + 1]
        oldPos == (IF removePath.live THEN removePath.newPos ELSE 0) - diagonalPath
        cleared == [bestPath EXCEPT ![diagonalPath - 1] = NoPath]
        canAdd == addPath.live /\ addPath.newPos + 1 < Len(newString)
        canRemove == removePath.live /\ 0 <= oldPos /\ oldPos < Len(oldString)
        branched ==
            IF ~canAdd \/ (canRemove /\ addPath.newPos < removePath.newPos)
            THEN [removePath EXCEPT !.components = pushComponent(@, Removed)]
            ELSE [addPath EXCEPT !.newPos = @ + 1,
                                 !.components = pushComponent(@, Added)]
        basePath == extractCommon(branched, newString, oldString, diagonalPath)
    IN  IF ~canAdd /\ ~canRemove
        THEN execEditLength(newString, oldString, editLength, diagonalPath + 2,
                            [cleared EXCEPT ![diagonalPath] = NoPath])
        ELSE IF basePath.newPos + 1 >= Len(newString)
                /\ basePath.newPos - diagonalPath + 1 >= Len(oldString)
        THEN basePath.components
        ELSE execEditLength(newString, oldString, editLength, diagonalPath + 2,
                            [cleared EXCEPT ![diagonalPath] = basePath])

\* buildValues: give every component its text; a removal is moved in front of
\* the addition that precedes it
RECURSIVE buildValues(_, _, _, _, _, _)
buildValues(components, componentPos, newString, oldString, newPos, oldPos) ==
    IF componentPos > Len(components) THEN components
    ELSE
    LET component == components[componentPos]
    IN  IF component.kind # Removed
        THEN LET valued == [value |-> join(SubSeq(newString, newPos + 1,
                                                  newPos + component.count)),
                            kind |-> component.kind]
             IN  buildValues([components EXCEPT ![componentPos] = valued],
                             componentPos + 1, newString, oldString,
                             newPos + component.count,
                             IF component.kind = Common
                             THEN oldPos + component.count ELSE oldPos)
        ELSE LET valued == [value |-> join(SubSeq(oldString, oldPos + 1,
                                                  oldPos + component.count)),
                            kind |-> Removed]
                 placed == IF componentPos > 1
                              /\ components[componentPos - 1].kind = Added
                           THEN [components EXCEPT
                                    ![componentPos - 1] = valued,
                                    ![componentPos] = components[componentPos - 1]]
                           ELSE [components EXCEPT ![componentPos] = valued]
             IN  buildValues(placed, componentPos + 1, newString, oldString,
                             newPos, oldPos + component.count)

\* diffWordsWithSpace(oldStr, newStr): list of [value, kind]
diffWordsWithSpace(oldStr, newStr) ==
    LET oldString == tokenize(oldStr)
        newString == tokenize(newStr)
        maxEditLength == Len(oldString) + Len(newString)
        seed == extractCommon([live |-> TRUE, newPos |-> -1, components |-> <<>>],
                              newString, oldString, 0)
        bestPath == [k \in -(maxEditLength + 2)..(maxEditLength + 2) |->
                        IF k = 0 THEN seed ELSE NoPath]
    IN  IF seed.newPos + 1 >= Len(newString) /\ seed.newPos + 1 >= Len(oldString)
        THEN <<[value |-> join(newString), kind |-> Common]>>
        ELSE buildValues(execEditLength(newString, oldString, 1, -1, bestPath),
                         1, newString, oldString, 0, 0)

\* first pass that also advances the offset over added text
RECURSIVE collectChangesCountingAdded(_, _, _)
collectChangesCountingAdded(diffs, i, posInOriginal) ==
    IF i > Len(diffs) THEN <<>>
    ELSE <<[type |-> diffs[i].kind, value |-> diffs[i].value,
            posInOriginal |-> posInOriginal]>>
         \o collectChangesCountingAdded(diffs, i + 1,
                                        posInOriginal + Len(diffs[i].value))

\* first pass of generateWordSuggestions: every change with its offset in the
\* original text
RECURSIVE collectChanges(_, _, _)
collectChanges(diffs, i, posInOriginal) ==
    IF i > Len(diffs) THEN <<>>
    ELSE <<[type |-> diffs[i].kind, value |-> diffs[i].value,
            posInOriginal |-> posInOriginal]>>
         \o collectChanges(diffs, i + 1,
                IF diffs[i].kind = Added THEN posInOriginal
                ELSE posInOriginal + Len(diffs[i].value))

\* second pass: remove+add becomes replace, a lone remove or add its own suggestion.
\* generateId() makes every id distinct: the id is the index of the change.
RECURSIVE mergeChanges(_, _, _)
mergeChanges(changes, i, startPos) ==
    IF i > Len(changes) THEN <<>>
    ELSE
    LET current == changes[i]
    IN  IF current.type = Removed /\ i + 1 <= Len(changes) /\ changes[i + 1].type = Added
        THEN <<[id |-> i, from |-> startPos + current.posInOriginal,
                to |-> startPos + current.posInOriginal + Len(current.value),
                originalText |-> current.value,
                suggestedText |-> changes[i + 1].value, type |-> "replace", explanation |-> None]>>
             \o mergeChanges(changes, i + 2, startPos)
        ELSE IF current.type = Removed
        THEN <<[id |-> i, from |-> startPos + current.posInOriginal,
                to |-> startPos + current.posInOriginal + Len(current.value),
                originalText |-> current.value,
                suggestedText |-> <<>>, type |-> "remove", explanation |-> None]>>
             \o mergeChanges(changes, i + 1, startPos)
        ELSE IF current.type = Added
        THEN <<[id |-> i, from |-> startPos + current.posInOriginal,
                to |-> startPos + current.posInOriginal,
                originalText |-> <<>>,
                suggestedText |-> current.value, type |-> "add", explanation |-> None]>>
             \o mergeChanges(changes, i + 1, startPos)
        ELSE mergeChanges(changes, i + 1, startPos)

\* generateWordSuggestions(originalText, suggestedText, startPos)
generateWordSuggestions(originalText, suggestedText, startPos) ==
    mergeChanges(collectChanges(diffWordsWithSpace(originalText, suggestedText), 1, 0),
                 1, startPos)

-----------------------------------------------------------------------------
(* Post-Processor *)

\* largest gap next.from - current.to that mergeAdjacentSuggestions bridges
MergeGap == 2

\* the loop of mergeAdjacentSuggestions from index i on, with the suggestion being
\* grown and the list merged so far
RECURSIVE mergeFrom(_, _, _, _)
mergeFrom(list, i, current, merged) ==
    IF i > Len(list) THEN Append(merged, current)
    ELSE LET next == list[i]
             gap == next.from - current.to
         IN  IF gap <= MergeGap /\ current.type = next.type
                /\ current.explanation = next.explanation
             THEN mergeFrom(list, i + 1,
                            [current EXCEPT
                                !.to = next.to,
                                !.originalText = @ \o next.originalText,
                                !.suggestedText = @ \o next.suggestedText],
                            merged)
             ELSE mergeFrom(list, i + 1, next, Append(merged, current))

\* mergeAdjacentSuggestions(suggestions)
mergeAdjacentSuggestions(list) ==
    IF Len(list) <= 1 THEN list ELSE mergeFrom(list, 2, list[1], <<>>)

\* filterTrivialSuggestions(suggestions): a suggestion with an explanation stays;
\* one whose original and suggested text are both blank is dropped
\* filterTrivialSuggestions that drops an empty change even when it is explained
RECURSIVE filterTrivialUnexplained(_)
filterTrivialUnexplained(list) ==
    IF list = <<>> THEN <<>>
    ELSE LET s == Head(list)
             keep == ~(trim(s.originalText) = <<>> /\ trim(s.suggestedText) = <<>>)
         IN  (IF keep THEN <<s>> ELSE <<>>) \o filterTrivialUnexplained(Tail(list))

RECURSIVE filterTrivialSuggestions(_)
filterTrivialSuggestions(list) ==
    IF list = <<>> THEN <<>>
    ELSE LET s == Head(list)
             keep == \/ (s.explanation # None /\ s.explanation[1] # <<>>)
                     \/ ~(trim(s.originalText) = <<>> /\ trim(s.suggestedText) = <<>>)
         IN  (IF keep THEN <<s>> ELSE <<>>) \o filterTrivialSuggestions(Tail(list))

-----------------------------------------------------------------------------
(* Position Validator and Position Recovery *)

OutOfBounds == "Position out of bounds"
TextMismatch == "Text mismatch - document may have changed"
NotFound == "Could not find text"
NoOriginalText == "Cannot recover suggestion: no original text"
Thrown == "exception"
NoError == "none"

\* length of the text an error message quotes
ErrorTextLen == 50

\* validatePosition without the whitespace-normalized comparison
validatePositionExactOnly(d, from, to, expectedText) ==
    IF from < 0 \/ to > contentSize(d) \/ from > to
    THEN [valid |-> FALSE, error |-> OutOfBounds,
          actualText |-> None, expectedText |-> None]
    ELSE IF expectedText = None
    THEN [valid |-> TRUE, error |-> NoError,
          actualText |-> None, expectedText |-> None]
    ELSE LET actualText == textBetween(d, from, to)
         IN  IF actualText = expectedText[1]
             THEN [valid |-> TRUE, error |-> NoError,
                   actualText |-> Some(actualText), expectedText |-> None]
             ELSE [valid |-> FALSE, error |-> TextMismatch,
                   actualText |-> Some(actualText),
                   expectedText |-> Some(expectedText[1])]

validatePosition(d, from, to, expectedText) ==
    IF from < 0 \/ to > contentSize(d) \/ from > to
    THEN [valid |-> FALSE, error |-> OutOfBounds,
          actualText |-> None, expectedText |-> None]
    ELSE IF expectedText = None
    THEN [valid |-> TRUE, error |-> NoError,
          actualText |-> None, expectedText |-> None]
    ELSE LET actualText == textBetween(d, from, to)
             expected == expectedText[1]
         IN  IF actualText = expected
             THEN [valid |-> TRUE, error |-> NoError,
                   actualText |-> Some(actualText), expectedText |-> None]
             ELSE IF normalizeTrim(actualText) = normalizeTrim(expected)
             THEN [valid |-> TRUE, error |-> NoError,
                   actualText |-> Some(actualText), expectedText |-> None]
             ELSE [valid |-> FALSE, error |-> TextMismatch,
                   actualText |-> Some(actualText), expectedText |-> Some(expected)]

\* /[\s\n\r]/.test(char) || char === ''
isWordBoundary(char) == char = <<>> \/ isSpace(char[1])

\* findTextPosition that searches the whitespace-normalized text before the literal one
findTextPositionNormalizedFirst(d, searchText, startFrom, wholeWord, fuzzyMatch) ==
    LET docText == textBetween(d, startFrom, contentSize(d))
        fuzzy == indexOf(collapseWhitespace(docText), normalizeTrim(searchText))
        index == IF fuzzy = -1 THEN indexOf(docText, searchText) ELSE fuzzy
        from == startFrom + index
    IN  IF index = -1 THEN None
        ELSE Some([from |-> from, to |-> from + Len(searchText)])

\* findTextPosition(editor, searchText, startFrom, {wholeWord, fuzzyMatch});
\* caseSensitive keeps its default (true) at every call site of the engine
RECURSIVE findTextPosition(_, _, _, _, _)
findTextPosition(d, searchText, startFrom, wholeWord, fuzzyMatch) ==
    LET docText == textBetween(d, startFrom, contentSize(d))
        exact == indexOf(docText, searchText)
        index == IF exact = -1 /\ fuzzyMatch
                 THEN indexOf(collapseWhitespace(docText), normalizeTrim(searchText))
                 ELSE exact
        from == startFrom + index
        to == from + Len(searchText)
        beforeChar == IF from > 0 THEN textBetween(d, from - 1, from) ELSE <<" ">>
        afterChar == IF to < contentSize(d) THEN textBetween(d, to, to + 1) ELSE <<" ">>
    IN  IF index = -1 THEN None
        ELSE IF wholeWord /\ (~isWordBoundary(beforeChar) \/ ~isWordBoundary(afterChar))
        THEN findTextPosition(d, searchText, to, wholeWord, fuzzyMatch)
        ELSE Some([from |-> from, to |-> to])

-----------------------------------------------------------------------------
(* Patch Applicator *)

\* What an apply function leaves behind: its ApplyResult, the buffer after it,
\* and the number of dispatched transactions that changed the document.
\* `named` is the text an error message quotes, when it quotes one; `returned`
\* is FALSE when the function threw instead of returning an ApplyResult.
Outcome(success, error, named, appliedCount, newPosition, d, n) ==
    [success |-> success, error |-> error, named |-> named,
     appliedCount |-> appliedCount, newPosition |-> newPosition,
     doc |-> d, dispatched |-> n, returned |-> TRUE]

\* an exception left the function: no ApplyResult, nothing dispatched
Escaped(d) ==
    [Outcome(FALSE, Thrown, None, None, None, d, 0) EXCEPT !.returned = FALSE]

\* editor.view.dispatch(tr)
docChanged(tr) == IF tr.steps > 0 THEN 1 ELSE 0

\* applySingleChange without its try / catch
applySingleChangeUncaught(d, change, validate) ==
    LET validation == validatePosition(d, change.from, change.to, None)
        tr == IF change.insert # None /\ Len(change.insert[1]) > 0
              THEN trReplace(Tr(d), change.from, change.to, change.insert[1])
              ELSE IF change.delete
              THEN trDelete(Tr(d), change.from, change.to)
              ELSE Tr(d)
        newPosition == IF change.insert # None
                       THEN change.from + Len(change.insert[1])
                       ELSE change.from
    IN  IF validate /\ ~validation.valid
        THEN Outcome(FALSE, validation.error, None, None, None, d, 0)
        ELSE IF ~tr.ok
        THEN Escaped(d)
        ELSE Outcome(TRUE, NoError, None, None, Some(newPosition), tr.doc, docChanged(tr))

\* applySingleChange(editor, change, validate); change.insert is optional
applySingleChange(d, change, validate) ==
    LET validation == validatePosition(d, change.from, change.to, None)
        tr == IF change.insert # None /\ Len(change.insert[1]) > 0
              THEN trReplace(Tr(d), change.from, change.to, change.insert[1])
              ELSE IF change.delete
              THEN trDelete(Tr(d), change.from, change.to)
              ELSE Tr(d)
        newPosition == IF change.insert # None
                       THEN change.from + Len(change.insert[1])
                       ELSE change.from
    IN  IF validate /\ ~validation.valid
        THEN Outcome(FALSE, validation.error, None, None, None, d, 0)
        ELSE IF ~tr.ok
        THEN Outcome(FALSE, Thrown, None, None, None, d, 0)
        ELSE Outcome(TRUE, NoError, None, None, Some(newPosition), tr.doc, docChanged(tr))

\* [...changes].sort((a, b) => b.from - a.from): stable, descending by from
RECURSIVE insertByFromDesc(_, _)
insertByFromDesc(sorted, c) ==
    IF sorted = <<>> THEN <<c>>
    ELSE IF Head(sorted).from >= c.from
         THEN <<Head(sorted)>> \o insertByFromDesc(Tail(sorted), c)
         ELSE <<c>> \o sorted

RECURSIVE sortByFromDesc(_)
sortByFromDesc(changes) ==
    IF changes = <<>> THEN <<>>
    ELSE insertByFromDesc(sortByFromDesc(SubSeq(changes, 1, Len(changes) - 1)),
                          changes[Len(changes)])

\* one iteration of the loop that folds a change into the transaction
foldChange(tr, change) ==
    LET afterDelete ==
            IF change.delete \/ (change.insert # None /\ change.from # change.to)
            THEN trDelete(tr, change.from, change.to)
            ELSE tr
    IN  IF change.insert # None /\ Len(change.insert[1]) > 0
        THEN trInsert(afterDelete, change.from, change.insert[1])
        ELSE afterDelete

RECURSIVE foldChanges(_, _)
foldChanges(tr, sortedChanges) ==
    IF sortedChanges = <<>> THEN tr
    ELSE foldChanges(foldChange(tr, Head(sortedChanges)), Tail(sortedChanges))

\* applyChangesAtomic(editor, changes)
applyChangesAtomic(d, changes) ==
    LET sortedChanges == sortByFromDesc(changes)
        invalid == {i \in 1..Len(sortedChanges) :
                      ~validatePosition(d, sortedChanges[i].from,
                                        sortedChanges[i].to, None).valid}
        tr == foldChanges(Tr(d), sortedChanges)
    IN  IF changes = <<>>
        THEN Outcome(TRUE, NoError, None, Some(0), None, d, 0)
        ELSE IF invalid # {}
        THEN Outcome(FALSE, OutOfBounds, None, Some(0), None, d, 0)
        ELSE IF ~tr.ok
        THEN Outcome(FALSE, Thrown, None, Some(0), None, d, 0)
        ELSE Outcome(TRUE, NoError, None, Some(Len(changes)), None, tr.doc, docChanged(tr))

\* suggestionToChange(suggestion); threw: the default branch (a type that is none
\* of the three kinds) throws an Error
suggestionToChange(suggestion) ==
    CASE suggestion.type = "add" ->
            [from |-> suggestion.from, to |-> suggestion.from,
             insert |-> Some(suggestion.suggestedText), delete |-> FALSE,
             threw |-> FALSE]
      [] suggestion.type = "remove" ->
            [from |-> suggestion.from, to |-> suggestion.to,
             insert |-> None, delete |-> TRUE, threw |-> FALSE]
      [] suggestion.type = "replace" ->
            [from |-> suggestion.from, to |-> suggestion.to,
             insert |-> Some(suggestion.suggestedText), delete |-> FALSE,
             threw |-> FALSE]
      [] OTHER ->
            [from |-> suggestion.from, to |-> suggestion.to,
             insert |-> None, delete |-> FALSE, threw |-> TRUE]

\* the range a suggestion is applied at: its stored range when that validates
\* against originalText, else the range content search finds; None when the
\* text cannot be found
relocate(d, suggestion) ==
    findTextPosition(d, suggestion.originalText, 0, FALSE, TRUE)

\* applySuggestion that applies at the stored range when the search finds nothing
applySuggestionIgnoringNotFound(d, suggestion) ==
    LET validation == validatePosition(d, suggestion.from, suggestion.to,
                                       Some(suggestion.originalText))
        newPosition == relocate(d, suggestion)
        finalSuggestion ==
            IF ~validation.valid /\ suggestion.originalText # <<>> /\ newPosition # None
            THEN [suggestion EXCEPT !.from = newPosition[1].from,
                                    !.to = newPosition[1].to]
            ELSE suggestion
    IN  applySingleChange(d, suggestionToChange(finalSuggestion), FALSE)

\* applySuggestion(editor, suggestion)
applySuggestion(d, suggestion) ==
    LET validation == validatePosition(d, suggestion.from, suggestion.to,
                                       Some(suggestion.originalText))
        recover == ~validation.valid /\ suggestion.originalText # <<>>
        newPosition == relocate(d, suggestion)
        finalSuggestion ==
            IF recover
            THEN [suggestion EXCEPT !.from = newPosition[1].from,
                                    !.to = newPosition[1].to]
            ELSE suggestion
        change == suggestionToChange(finalSuggestion)
    IN  IF recover /\ newPosition = None
        THEN Outcome(FALSE, NotFound, Some(substring(suggestion.originalText, 0, ErrorTextLen)),
                     None, None, d, 0)
        ELSE IF change.threw THEN Escaped(d)
        ELSE applySingleChange(d, change, FALSE)

\* validate-and-relocate loop that drops a suggestion it cannot place and goes on
RECURSIVE validateAllSkipping(_, _, _)
validateAllSkipping(d, list, validatedSuggestions) ==
    IF list = <<>>
    THEN [error |-> NoError, named |-> None, validated |-> validatedSuggestions]
    ELSE LET suggestion == Head(list)
             validation == validatePosition(d, suggestion.from, suggestion.to,
                                            Some(suggestion.originalText))
             newPosition == relocate(d, suggestion)
         IN  IF validation.valid
             THEN validateAllSkipping(d, Tail(list),
                                      Append(validatedSuggestions, suggestion))
             ELSE IF suggestion.originalText = <<>> \/ newPosition = None
             THEN validateAllSkipping(d, Tail(list), validatedSuggestions)
             ELSE validateAllSkipping(d, Tail(list),
                     Append(validatedSuggestions,
                            [suggestion EXCEPT !.from = newPosition[1].from,
                                               !.to = newPosition[1].to]))

\* the validate-and-relocate loop of applySuggestionsAtomic: the relocated list,
\* or the error of the first suggestion that cannot be placed (validated then
\* holds the suggestions placed before it)
RECURSIVE validateAll(_, _, _)
validateAll(d, list, validatedSuggestions) ==
    IF list = <<>>
    THEN [error |-> NoError, named |-> None, validated |-> validatedSuggestions]
    ELSE LET suggestion == Head(list)
             validation == validatePosition(d, suggestion.from, suggestion.to,
                                            Some(suggestion.originalText))
             newPosition == relocate(d, suggestion)
         IN  IF validation.valid
             THEN validateAll(d, Tail(list), Append(validatedSuggestions, suggestion))
             ELSE IF suggestion.originalText = <<>>
             THEN [error |-> NoOriginalText, named |-> None,
                   validated |-> validatedSuggestions]
             ELSE IF newPosition = None
             THEN [error |-> NotFound,
                   named |-> Some(substring(suggestion.originalText, 0, ErrorTextLen)),
                   validated |-> validatedSuggestions]
             ELSE validateAll(d, Tail(list),
                     Append(validatedSuggestions,
                            [suggestion EXCEPT !.from = newPosition[1].from,
                                               !.to = newPosition[1].to]))

\* applySuggestionsAtomic that commits the suggestions placed before the failing one
applySuggestionsAtomicPartial(d, list) ==
    LET checked == validateAll(d, list, <<>>)
        changes == [i \in 1..Len(checked.validated) |->
                       suggestionToChange(checked.validated[i])]
        o == applyChangesAtomic(d, changes)
    IN  IF checked.error # NoError
        THEN Outcome(FALSE, checked.error, checked.named, Some(0), None,
                     o.doc, o.dispatched)
        ELSE o

\* applySuggestionsAtomic(editor, suggestions)
applySuggestionsAtomic(d, list) ==
    LET checked == validateAll(d, list, <<>>)
        changes == [i \in 1..Len(checked.validated) |->
                       suggestionToChange(checked.validated[i])]
    IN  IF checked.error # NoError
        THEN Outcome(FALSE, checked.error, checked.named, Some(0), None, d, 0)
        ELSE IF \E i \in DOMAIN changes : changes[i].threw THEN Escaped(d)
        ELSE applyChangesAtomic(d, changes)

-----------------------------------------------------------------------------
(* Inputs *)

DocChars == {"a", "b", " "}
Docs == TextsUpTo(DocChars, MaxDocLen)
Positions == -1..(MaxDocLen + 1)
Types == {"replace", "add", "remove"}

\* suggestions with an arbitrary stored range, as a caller of the engine may pass
SingleInputs ==
    [id : {1}, from : Positions, to : Positions,
     originalText : TextsUpTo({"a", " "}, MaxTextLen),
     suggestedText : TextsUpTo({"b"}, MaxTextLen),
     type : Types, explanation : {None}]

\* suggestions as the generators emit them against some snapshot of the buffer:
\* originalText is the snapshot's text at [from,to); an add is zero-width, a
\* remove has no replacement text
Emitted ==
    {[id |-> 1, from |-> f, to |-> f + Len(o), originalText |-> o,
      suggestedText |-> k[2], type |-> k[1], explanation |-> None] :
        f \in 0..MaxDocLen, o \in TextsUpTo({"a", " "}, MaxTextLen),
        k \in {<<"replace", <<"b">>>>, <<"replace", <<>>>>,
               <<"remove", <<>>>>, <<"add", <<"b">>>>}}

EmittedInputs ==
    {s \in Emitted : /\ s.to <= MaxDocLen
                     /\ (s.type = "add") = (s.originalText = <<>>)}

\* the lists handed to applySuggestionsAtomic; the id of a member is its index
BatchInputs ==
    {<<>>} \cup {<<s>> : s \in SingleInputs}
           \cup {<<s, [t EXCEPT !.id = 2]>> : s \in EmittedInputs, t \in EmittedInputs}

ApplyResult(o) ==
    [success |-> o.success, error |-> o.error, named |-> o.named,
     appliedCount |-> o.appliedCount, newPosition |-> o.newPosition,
     returned |-> o.returned]

NoResult ==
    [success |-> TRUE, error |-> NoError, named |-> None,
     appliedCount |-> None, newPosition |-> None, returned |-> TRUE]

-----------------------------------------------------------------------------
(* SpecEngine: one call of the Patch Applicator, on every buffer with every   *)
(* input                                                                     *)

InitEngine ==
    /\ doc \in Docs
    /\ suggestions = <<>>
    /\ call = [op |-> "init"]
    /\ ret = NoResult
    /\ pre = doc
    /\ dispatched = 0
    /\ notice = "none"
    /\ paragraphChanges = <<>>

ApplySuggestion(s) ==
    LET o == applySuggestion(doc, s)
    IN  /\ call.op = "init"
        /\ call' = [op |-> "applySuggestion"]
        /\ suggestions' = <<s>>
        /\ pre' = doc
        /\ doc' = o.doc
        /\ ret' = ApplyResult(o)
        /\ dispatched' = o.dispatched
        /\ UNCHANGED <<notice, paragraphChanges>>

ApplySuggestionsAtomic(list) ==
    LET o == applySuggestionsAtomic(doc, list)
    IN  /\ call.op = "init"
        /\ call' = [op |-> "applySuggestionsAtomic"]
        /\ suggestions' = list
        /\ pre' = doc
        /\ doc' = o.doc
        /\ ret' = ApplyResult(o)
        /\ dispatched' = o.dispatched
        /\ UNCHANGED <<notice, paragraphChanges>>

NextEngine ==
    /\ call.op = "init"
    /\ \/ \E s \in SingleInputs : ApplySuggestion(s)
       \/ \E list \in BatchInputs : ApplySuggestionsAtomic(list)

SpecEngine == InitEngine /\ [][NextEngine]_vars

-----------------------------------------------------------------------------
(* EditorPane: the pending suggestions and the accept / reject handlers *)

\* prev.filter((s) => s.id !== id)
RECURSIVE withoutId(_, _)
withoutId(list, id) ==
    IF list = <<>> THEN <<>>
    ELSE IF Head(list).id # id
         THEN <<Head(list)>> \o withoutId(Tail(list), id)
         ELSE withoutId(Tail(list), id)

\* suggestions.find((s) => s.id === id): the first match, None when there is none
findById(list, id) ==
    LET hits == {i \in DOMAIN list : list[i].id = id}
    IN  IF hits = {} THEN None
        ELSE Some(list[CHOOSE i \in hits : \A j \in hits : i <= j])

\* the step handleAcceptSuggestion and handleAcceptAll build for one suggestion
acceptStep(tr, suggestion) ==
    IF suggestion.suggestedText = <<>>
    THEN trDelete(tr, suggestion.from, suggestion.to)
    ELSE trReplace(tr, suggestion.from, suggestion.to, suggestion.suggestedText)

RECURSIVE acceptSteps(_, _)
acceptSteps(tr, sorted) ==
    IF sorted = <<>> THEN tr
    ELSE acceptSteps(acceptStep(tr, Head(sorted)), Tail(sorted))

\* What an EditorPane handler leaves behind: the buffer, the pending list, the
\* notification it raised, the ranges it committed at, and the number of
\* dispatched transactions that changed the document.
Handled(d, pending, raised, committed, n) ==
    [doc |-> d, suggestions |-> pending, notice |-> raised,
     committed |-> committed, dispatched |-> n]

\* handleAcceptSuggestion(id), for the suggestion found under that id
handleAcceptSuggestion(d, pending, suggestion) ==
    LET tr == acceptStep(Tr(d), suggestion)
    IN  IF tr.ok
        THEN Handled(tr.doc, withoutId(pending, suggestion.id), "success",
                     <<suggestion>>, docChanged(tr))
        ELSE Handled(d, withoutId(pending, suggestion.id), "error", <<>>, 0)

\* a rejection that undoes the suggestion's range in the buffer
handleIgnoreSuggestionReverting(d, pending, id) ==
    LET found == findById(pending, id)
        tr == IF found = None THEN Tr(d)
              ELSE trDelete(Tr(d), found[1].from, found[1].to)
    IN  Handled(IF tr.ok THEN tr.doc ELSE d, withoutId(pending, id), "none",
                <<>>, docChanged(tr))

\* handleIgnoreSuggestion(id)
handleIgnoreSuggestion(d, pending, id) ==
    Handled(d, withoutId(pending, id), "none", <<>>, 0)

\* handleAcceptAll()
handleAcceptAll(d, pending) ==
    LET sorted == sortByFromDesc(pending)
        tr == acceptSteps(Tr(d), sorted)
    IN  IF tr.ok
        THEN Handled(tr.doc, <<>>, "success", sorted, docChanged(tr))
        ELSE Handled(d, <<>>, "error", <<>>, 0)

\* handleRejectAll()
handleRejectAll(d, pending) == Handled(d, <<>>, "none", <<>>, 0)

-----------------------------------------------------------------------------
(* What the claims speak of, stated without the engine's functions *)

\* the stored range lies outside buffer d
outOfBounds(d, s) == s.from < 0 \/ s.to > Len(d) \/ s.from > s.to

\* text a equals text b exactly or after whitespace normalization
sameText(a, b) == a = b \/ normalizeTrim(a) = normalizeTrim(b)

\* the stored range of s is inside d and holds s.originalText
matchesAt(d, s) ==
    ~outOfBounds(d, s) /\ sameText(SubSeq(d, s.from + 1, s.to), s.originalText)

\* text occurs in d, literally or after whitespace normalization of both
occursIn(d, text) ==
    \/ \E i \in 0..(Len(d) - Len(text)) : SubSeq(d, i + 1, i + Len(text)) = text
    \/ LET nd == collapseWhitespace(d)
           nt == normalizeTrim(text)
       IN  \E i \in 0..(Len(nd) - Len(nt)) : SubSeq(nd, i + 1, i + Len(nt)) = nt

\* s can neither be validated at its stored range nor relocated by content search
unplaceable(d, s) ==
    ~matchesAt(d, s) /\ (s.originalText = <<>> \/ ~occursIn(d, s.originalText))

\* s is stale in d but content search can relocate it
recoverable(d, s) ==
    ~matchesAt(d, s) /\ s.originalText # <<>> /\ occursIn(d, s.originalText)

\* half-open ranges that share no character; an add occupies [from,from)
rangeEnd(s) == IF s.type = "add" THEN s.from ELSE s.to
nonOverlapping(a, b) == rangeEnd(a) <= b.from \/ rangeEnd(b) <= a.from

-----------------------------------------------------------------------------
(* Claims settled under SpecEngine *)

\* C1. Batch atomicity: when at least one suggestion of the list passed to
\* applySuggestionsAtomic can neither be validated nor relocated, the call returns
\* success=false with appliedCount=0 and the buffer is what it was before the call.
C1_BatchAtomicity ==
    (/\ call.op = "applySuggestionsAtomic"
     /\ \E i \in DOMAIN suggestions : unplaceable(pre, suggestions[i]))
    => (~ret.success /\ ret.appliedCount = Some(0) /\ doc = pre /\ dispatched = 0)

\* a batch [S1 recoverable, S2 unplaceable] was refused
C1_Witness ==
    /\ call.op = "applySuggestionsAtomic"
    /\ Len(suggestions) = 2
    /\ recoverable(pre, suggestions[1])
    /\ unplaceable(pre, suggestions[2])
    /\ ~ret.success
    /\ doc = pre

\* C4. Order independence of applyAll: for two non-overlapping suggestions A and B
\* that are valid against the buffer, applySuggestionsAtomic([A,B]) and
\* applySuggestionsAtomic([B,A]) leave the same buffer content.
C4_OrderIndependence ==
    (/\ call.op = "applySuggestionsAtomic"
     /\ Len(suggestions) = 2
     /\ matchesAt(pre, suggestions[1])
     /\ matchesAt(pre, suggestions[2])
     /\ nonOverlapping(suggestions[1], suggestions[2]))
    => doc = applySuggestionsAtomic(pre, <<suggestions[2], suggestions[1]>>).doc

\* C5. Idempotence of no-op: when suggestedText equals the buffer's current text at
\* [from,to), applySuggestion returns success=true and does not mutate the buffer,
\* whatever originalText is.
C5_NoOpIdempotence ==
    (/\ call.op = "applySuggestion"
     /\ ~outOfBounds(pre, suggestions[1])
     /\ SubSeq(pre, suggestions[1].from + 1, suggestions[1].to)
            = suggestions[1].suggestedText)
    => (ret.success /\ doc = pre)

\* C8. NotFound on the single path: when validation of the stored range fails and
\* content search for a non-empty originalText finds no match, applySuggestion
\* returns success=false with an error that names the text, and the buffer is unchanged.
C8_NotFoundSingle ==
    (/\ call.op = "applySuggestion"
     /\ ~matchesAt(pre, suggestions[1])
     /\ suggestions[1].originalText # <<>>
     /\ ~occursIn(pre, suggestions[1].originalText))
    => (/\ ~ret.success
        /\ ret.error = NotFound
        /\ ret.named = Some(suggestions[1].originalText)
        /\ doc = pre
        /\ dispatched = 0)

\* a stale suggestion whose range is inside the buffer could not be found
C8_Witness ==
    /\ call.op = "applySuggestion"
    /\ ~outOfBounds(pre, suggestions[1])
    /\ ~matchesAt(pre, suggestions[1])
    /\ suggestions[1].originalText # <<>>
    /\ ~occursIn(pre, suggestions[1].originalText)
    /\ ret.error = NotFound

C13_EmptyReplacement ==
    (/\ call.op = "applySuggestion"
     /\ suggestions[1].type = "add"
     /\ suggestions[1].suggestedText = <<>>)
    => (~ret.success /\ doc = pre /\ dispatched = 0)

\* C17. Batch ordering invariant: when applySuggestionsAtomic folds pairwise
\* non-overlapping relocated suggestions, sorted by descending from, into one
\* transaction, each edit finds at its [from,to) the text the pre-batch buffer
\* holds there: no edit applied earlier has shifted or altered it, also when
\* several edits share the same from.
C17_BatchOrdering ==
    (call.op = "applySuggestionsAtomic" /\ ret.success) =>
        LET placed == validateAll(pre, suggestions, <<>>).validated
            sorted == sortByFromDesc([i \in DOMAIN placed |->
                                         suggestionToChange(placed[i])])
        IN  (\A i, j \in DOMAIN placed :
                 i < j => nonOverlapping(placed[i], placed[j]))
            => \A k \in DOMAIN sorted :
                   LET tr == foldChanges(Tr(pre), SubSeq(sorted, 1, k - 1))
                   IN  /\ tr.ok
                       /\ sorted[k].to <= Len(tr.doc)
                       /\ SubSeq(tr.doc, sorted[k].from + 1, sorted[k].to)
                              = SubSeq(pre, sorted[k].from + 1, sorted[k].to)

\* the range applySuggestion edits when it validated the stored range or
\* relocated the suggestion by content; None when it did neither
appliedRange(d, suggestion) ==
    IF validatePosition(d, suggestion.from, suggestion.to,
                        Some(suggestion.originalText)).valid
    THEN Some([from |-> suggestion.from, to |-> suggestion.to])
    ELSE IF suggestion.originalText # <<>>
    THEN relocate(d, suggestion)
    ELSE None

\* C19. Postcondition of a successful single apply: when applySuggestion
\* succeeds on the validated or relocated range [f,t) of the pre-call buffer B,
\* the buffer becomes B[0,f) + suggestedText + B[t,end) and newPosition is
\* f + len(suggestedText), for every kind of suggestion.
C19_ApplyPostcondition ==
    (/\ call.op = "applySuggestion"
     /\ ret.success
     /\ appliedRange(pre, suggestions[1]) # None) =>
        LET r == appliedRange(pre, suggestions[1])[1]
            s == suggestions[1]
        IN  /\ doc = substring(pre, 0, r.from) \o s.suggestedText
                     \o substring(pre, r.to, Len(pre))
            /\ ret.newPosition = Some(r.from + Len(s.suggestedText))

\* the stored range failed validation, so the batch placed it by content search
relocated(d, suggestion) ==
    /\ ~validatePosition(d, suggestion.from, suggestion.to,
                         Some(suggestion.originalText)).valid
    /\ suggestion.originalText # <<>>

\* C20. Distinct relocation in a batch: when applySuggestionsAtomic relocates
\* suggestions by content search, the relocated ranges of two different
\* suggestions of the list never overlap, so no buffer region is edited twice.
C20_DistinctRelocation ==
    call.op = "applySuggestionsAtomic" =>
        LET checked == validateAll(pre, suggestions, <<>>)
        IN  checked.error = NoError =>
                \A i, j \in DOMAIN suggestions :
                    (/\ i < j
                     /\ relocated(pre, suggestions[i])
                     /\ relocated(pre, suggestions[j])) =>
                        nonOverlapping(checked.validated[i], checked.validated[j])

\* C21. Single and batch paths agree: for every buffer and suggestion s,
\* applySuggestion(s) and applySuggestionsAtomic([s]) return the same success
\* flag and leave the same buffer content.
C21_SingleBatchAgree ==
    call.op = "applySuggestion" =>
        LET batch == applySuggestionsAtomic(pre, suggestions)
        IN  /\ batch.success = ret.success
            /\ batch.doc = doc

-----------------------------------------------------------------------------
(* SpecDiff: the Diff Generator on every pair of texts, then its output applied *)
(* to a buffer that holds the original                                          *)

WordTokens == {<<"a">>, <<"b">>}
BlankTokens == {<<" ">>, <<"\t">>}

\* token lists as the tokenizer yields them: words and whitespace runs alternate
AlternatingTokens(n) ==
    {t \in [1..n -> WordTokens \cup BlankTokens] :
        \A i \in 1..(n - 1) : (t[i] \in WordTokens) # (t[i + 1] \in WordTokens)}

DiffTexts == {join(t) : t \in UNION {AlternatingTokens(n) : n \in 0..MaxDiffTokens}}

InitDiff ==
    /\ doc = <<>>
    /\ suggestions = <<>>
    /\ call = [op |-> "init"]
    /\ ret = NoResult
    /\ pre = <<>>
    /\ dispatched = 0
    /\ notice = "none"
    /\ paragraphChanges = <<>>

\* the buffer holds originalText; the generator's output becomes the pending list
Generate(originalText, suggestedText) ==
    /\ call.op = "init"
    /\ call' = [op |-> "generateWordSuggestions",
                originalText |-> originalText, suggestedText |-> suggestedText]
    /\ suggestions' = generateWordSuggestions(originalText, suggestedText, 0)
    /\ doc' = originalText
    /\ pre' = originalText
    /\ UNCHANGED <<ret, dispatched, notice, paragraphChanges>>

\* every generated suggestion applied together, highest offset first
ApplyGenerated ==
    LET o == applySuggestionsAtomic(doc, suggestions)
    IN  /\ call.op = "generateWordSuggestions"
        /\ call' = [call EXCEPT !.op = "applySuggestionsAtomic"]
        /\ pre' = doc
        /\ doc' = o.doc
        /\ ret' = ApplyResult(o)
        /\ dispatched' = o.dispatched
        /\ UNCHANGED <<suggestions, notice, paragraphChanges>>

\* the generator's output handed to mergeAdjacentSuggestions
MergeAdjacent ==
    /\ call.op = "generateWordSuggestions"
    /\ call' = [call EXCEPT !.op = "mergeAdjacentSuggestions"]
    /\ suggestions' = mergeAdjacentSuggestions(suggestions)
    /\ UNCHANGED <<doc, pre, ret, dispatched, notice, paragraphChanges>>

\* the generator's output handed to filterTrivialSuggestions
FilterTrivial ==
    /\ call.op = "generateWordSuggestions"
    /\ call' = [call EXCEPT !.op = "filterTrivialSuggestions"]
    /\ suggestions' = filterTrivialSuggestions(suggestions)
    /\ UNCHANGED <<doc, pre, ret, dispatched, notice, paragraphChanges>>

NextDiff ==
    \/ /\ call.op = "init"
       /\ \E originalText \in DiffTexts, suggestedText \in DiffTexts :
             Generate(originalText, suggestedText)
    \/ ApplyGenerated
    \/ MergeAdjacent
    \/ FilterTrivial

SpecDiff == InitDiff /\ [][NextDiff]_vars

\* C2. Round-trip: every suggestion returned by generateWordSuggestions(original,
\* suggested, 0), applied at its stated range to a buffer that holds original (all
\* together, highest offset first), leaves the buffer equal to suggested.
C2_RoundTrip ==
    call.op = "applySuggestionsAtomic"
    => (ret.success /\ doc = call.suggestedText)

\* a diff of several suggestions, one of them a whitespace change, was applied
C2_Witness ==
    /\ call.op = "applySuggestionsAtomic"
    /\ Len(suggestions) >= 2
    /\ \E i \in DOMAIN suggestions :
          /\ suggestions[i].suggestedText # <<>>
          /\ \A k \in DOMAIN suggestions[i].suggestedText :
                isSpace(suggestions[i].suggestedText[k])
    /\ doc = call.suggestedText
    /\ doc # call.originalText

\* C14. Suggestion invariant: every suggestion in the output of
\* generateWordSuggestions, and of mergeAdjacentSuggestions and
\* filterTrivialSuggestions given such a list, has from <= to, from = to when its
\* kind is add, and an empty suggestedText when its kind is remove.
C14_SuggestionInvariant ==
    call.op \in {"generateWordSuggestions", "mergeAdjacentSuggestions",
                 "filterTrivialSuggestions"} =>
        \A i \in DOMAIN suggestions :
            /\ suggestions[i].from <= suggestions[i].to
            /\ suggestions[i].type = "add" => suggestions[i].from = suggestions[i].to
            /\ suggestions[i].type = "remove" => suggestions[i].suggestedText = <<>>

\* C15. originalText is exact: every suggestion produced from (original, suggested,
\* 0) by generateWordSuggestions, and then by mergeAdjacentSuggestions, lies inside
\* original and its originalText is the text of original at [from,to).
C15_OriginalTextExact ==
    call.op \in {"generateWordSuggestions", "mergeAdjacentSuggestions"} =>
        \A i \in DOMAIN suggestions :
            /\ 0 <= suggestions[i].from
            /\ suggestions[i].from <= suggestions[i].to
            /\ suggestions[i].to <= Len(call.originalText)
            /\ SubSeq(call.originalText, suggestions[i].from + 1, suggestions[i].to)
                   = suggestions[i].originalText

\* the base offsets of the selection the generator is called with
BaseOffsets == 0..2

\* ascending, pairwise non-overlapping, inside [baseOffset, baseOffset + length]
wellShaped(list, baseOffset, length) ==
    /\ \A i \in DOMAIN list :
          /\ baseOffset <= list[i].from
          /\ list[i].from <= list[i].to
          /\ list[i].to <= baseOffset + length
    /\ \A i \in 1..(Len(list) - 1) :
          /\ list[i].from <= list[i + 1].from
          /\ list[i].to <= list[i + 1].from

-----------------------------------------------------------------------------
(* SpecGroup: groupSentenceLevelChanges, one step per iteration of its outer   *)
(* loop; call holds the loop's locals i and grouped                            *)

MaxGroupLen == 4
GroupGap == 10
GroupMin == 3
RatioNum == 7
RatioDen == 10

\* changedSpan / totalSpan > 0.7 in floating point: x/0 is Infinity for x > 0
\* and NaN for x = 0, and a negative quotient is never above 0.7
ratioAbove(changedSpan, totalSpan) ==
    IF totalSpan = 0 THEN changedSpan > 0
    ELSE IF totalSpan < 0 THEN FALSE
    ELSE RatioDen * changedSpan > RatioNum * totalSpan

\* the inner while loop, from j on (i and j count from 0 as in the source):
\* whether a cluster was found, and the value of j when the loop is left
RECURSIVE lookAhead(_, _, _, _)
lookAhead(list, i, j, changedSpan) ==
    IF j >= Len(list)
    THEN [found |-> FALSE, j |-> j]
    ELSE LET next == list[j + 1]
             gap == next.from - list[j].to
             totalSpan == next.to - list[i + 1].from
             changed == changedSpan + Len(next.originalText)
         IN  IF gap > GroupGap
             THEN [found |-> FALSE, j |-> j]
             ELSE IF ratioAbove(changed, totalSpan) /\ (j + 1) - i >= GroupMin
             THEN [found |-> TRUE, j |-> j + 1]
             ELSE lookAhead(list, i, j + 1, changed)

RECURSIVE concatField(_, _, _, _)
concatField(list, field, k, j) ==
    IF k >= j THEN <<>>
    ELSE list[k + 1][field] \o concatField(list, field, k + 1, j)

\* the suggestion that stands for list[i..j-1]; generateId() is id 0 here
groupedSuggestion(list, i, j) ==
    [id |-> 0, from |-> list[i + 1].from, to |-> list[j].to,
     originalText |-> concatField(list, "originalText", i, j),
     suggestedText |-> concatField(list, "suggestedText", i, j),
     explanation |-> list[i + 1].explanation, type |-> "replace"]

\* one iteration of the outer loop: the locals i and grouped after it
outerIteration(list, i, grouped) ==
    LET current == list[i + 1]
        look == lookAhead(list, i, i + 1, Len(current.originalText))
        afterInner == IF look.found
                      THEN [i |-> look.j,
                            grouped |-> Append(grouped, groupedSuggestion(list, i, look.j))]
                      ELSE [i |-> i, grouped |-> grouped]
    IN  IF afterInner.i < look.j
        THEN afterInner
        ELSE [i |-> afterInner.i + 1, grouped |-> Append(afterInner.grouped, current)]

\* a word of the selection replaced, removed, or a word inserted
GroupEdits ==
    {[originalText |-> <<"a">>, suggestedText |-> <<"b">>, type |-> "replace"],
     [originalText |-> <<"a">>, suggestedText |-> <<>>, type |-> "remove"],
     [originalText |-> <<>>, suggestedText |-> <<"b">>, type |-> "add"]}

GroupGaps == {0, 1, GroupGap + 1}

\* suggestions in ascending order, each starting gaps[k] after the previous end
RECURSIVE layOut(_, _, _, _)
layOut(edits, gaps, k, at) ==
    IF k > Len(edits) THEN <<>>
    ELSE <<[id |-> k, from |-> at + gaps[k],
            to |-> at + gaps[k] + Len(edits[k].originalText),
            originalText |-> edits[k].originalText,
            suggestedText |-> edits[k].suggestedText,
            explanation |-> None, type |-> edits[k].type]>>
         \o layOut(edits, gaps, k + 1, at + gaps[k] + Len(edits[k].originalText))

GroupInputs(max) ==
    UNION {{layOut(e, g, 1, 0) : e \in [1..n -> GroupEdits], g \in [1..n -> GroupGaps]} :
              n \in 0..max}

InitGroup ==
    /\ doc = <<>>
    /\ suggestions = <<>>
    /\ call = [op |-> "init"]
    /\ ret = None
    /\ pre = <<>>
    /\ dispatched = 0
    /\ notice = "none"
    /\ paragraphChanges = <<>>

\* the call, up to the first test of the outer loop
GroupSentenceLevelChanges(list) ==
    /\ suggestions' = list
    /\ IF Len(list) <= 1
       THEN /\ call' = [op |-> "groupSentenceLevelChanges", i |-> 0,
                        grouped |-> <<>>, returned |-> TRUE]
            /\ ret' = Some(list)
       ELSE /\ call' = [op |-> "groupSentenceLevelChanges", i |-> 0,
                        grouped |-> <<>>, returned |-> FALSE]
            /\ ret' = None
    /\ UNCHANGED <<doc, pre, dispatched, notice, paragraphChanges>>

\* while (i < suggestions.length) { ... }
OuterIteration ==
    /\ call.op = "groupSentenceLevelChanges"
    /\ ~call.returned
    /\ call.i < Len(suggestions)
    /\ LET after == outerIteration(suggestions, call.i, call.grouped)
       IN  call' = [call EXCEPT !.i = after.i, !.grouped = after.grouped]
    /\ UNCHANGED <<doc, suggestions, ret, pre, dispatched, notice, paragraphChanges>>

\* return grouped
ReturnGrouped ==
    /\ call.op = "groupSentenceLevelChanges"
    /\ ~call.returned
    /\ call.i >= Len(suggestions)
    /\ call' = [call EXCEPT !.returned = TRUE]
    /\ ret' = Some(call.grouped)
    /\ UNCHANGED <<doc, suggestions, pre, dispatched, notice, paragraphChanges>>

NextGroup ==
    \/ /\ call.op = "init"
       /\ \E list \in GroupInputs(MaxGroupLen) : GroupSentenceLevelChanges(list)
    \/ OuterIteration
    \/ ReturnGrouped

SpecGroup == InitGroup /\ [][NextGroup]_vars

\* the loop runs whenever it can: the function is one synchronous computation
SpecGroupFair == SpecGroup /\ WF_vars(OuterIteration) /\ WF_vars(ReturnGrouped)

\* C24. Cluster pass terminates: for every finite list of suggestions, also
\* one of two or more in which no run qualifies for collapsing,
\* groupSentenceLevelChanges returns after finitely many steps.
C24_Terminates ==
    (call.op = "groupSentenceLevelChanges") ~> (call.op = "groupSentenceLevelChanges" /\ call.returned)

\* C25. Cluster-to-sentence result: when groupSentenceLevelChanges finds a run
\* of at least 3 nearby suggestions whose summed originalText length exceeds 70%
\* of the run's span, its output holds one replace from the first member's from
\* to the last member's to, no member of the run itself, and every suggestion
\* outside the run exactly once.
C25_ClusterResult ==
    (/\ call.op = "groupSentenceLevelChanges"
     /\ call.returned
     /\ Len(suggestions) > 1) =>
        LET look == lookAhead(suggestions, 0, 1, Len(suggestions[1].originalText))
            out == ret[1]
        IN  look.found =>
                /\ \E k \in DOMAIN out :
                      /\ out[k].type = "replace"
                      /\ out[k].from = suggestions[1].from
                      /\ out[k].to = suggestions[look.j].to
                      /\ out[k].id = 0
                /\ \A m \in 1..look.j : \A k \in DOMAIN out : out[k] # suggestions[m]
                /\ \A m \in (look.j + 1)..Len(suggestions) :
                      Cardinality({k \in DOMAIN out : out[k] = suggestions[m]}) = 1

-----------------------------------------------------------------------------
(* SpecFilter: filterTrivialSuggestions on lists of suggestions with and       *)
(* without explanation                                                         *)

MaxFilterLen == 3

\* a suggestion's texts: empty, whitespace only, or a word; its explanation:
\* absent, empty, or a note
FilterEdits ==
    [originalText : {<<>>, <<" ">>, <<"a">>},
     suggestedText : {<<>>, <<" ", "\t">>, <<"b">>},
     explanation : {None, Some(<<>>), Some(<<"x">>)}]

FilterInputs(max) ==
    UNION {{[k \in 1..n |->
                [id |-> k, from |-> k - 1, to |-> k - 1 + Len(e[k].originalText),
                 originalText |-> e[k].originalText,
                 suggestedText |-> e[k].suggestedText,
                 explanation |-> e[k].explanation, type |-> "replace"]] :
               e \in [1..n -> FilterEdits]} : n \in 0..max}

InitFilter ==
    /\ doc = <<>>
    /\ suggestions = <<>>
    /\ call = [op |-> "init"]
    /\ ret = None
    /\ pre = <<>>
    /\ dispatched = 0
    /\ notice = "none"
    /\ paragraphChanges = <<>>

FilterTrivialSuggestions(list) ==
    /\ call' = [op |-> "filterTrivialSuggestions", suggestions |-> list]
    /\ suggestions' = filterTrivialSuggestions(list)
    /\ UNCHANGED <<doc, ret, pre, dispatched, notice, paragraphChanges>>

NextFilter ==
    /\ call.op = "init"
    /\ \E list \in FilterInputs(MaxFilterLen) : FilterTrivialSuggestions(list)

SpecFilter == InitFilter /\ [][NextFilter]_vars

\* no explanation, or an empty one, and nothing but whitespace on both sides
trivial(s) ==
    /\ s.explanation = None \/ s.explanation = Some(<<>>)
    /\ \A k \in DOMAIN s.originalText : isSpace(s.originalText[k])
    /\ \A k \in DOMAIN s.suggestedText : isSpace(s.suggestedText[k])

-----------------------------------------------------------------------------
(* SpecSequential: the Diff Generator's output accepted one suggestion at a    *)
(* time, in any order, on a buffer that holds the original                     *)

\* list without its i-th member
without(list, i) == SubSeq(list, 1, i - 1) \o SubSeq(list, i + 1, Len(list))

\* applySuggestion on the i-th suggestion still pending
AcceptNext(i) ==
    LET o == applySuggestion(doc, suggestions[i])
    IN  /\ call.op \in {"generateWordSuggestions", "applySuggestion"}
        /\ call' = [call EXCEPT !.op = "applySuggestion"]
        /\ suggestions' = without(suggestions, i)
        /\ pre' = doc
        /\ doc' = o.doc
        /\ ret' = ApplyResult(o)
        /\ dispatched' = o.dispatched
        /\ UNCHANGED <<notice, paragraphChanges>>

NextSequential ==
    \/ /\ call.op = "init"
       /\ \E originalText \in DiffTexts, suggestedText \in DiffTexts :
             Generate(originalText, suggestedText)
    \/ \E i \in 1..MaxDiffTokens : i \in DOMAIN suggestions /\ AcceptNext(i)

SpecSequential == InitDiff /\ [][NextSequential]_vars

\* C18. Sequential acceptance reaches the suggested text: from a buffer equal to
\* original, accepting the suggestions of generateWordSuggestions(original,
\* suggested, 0) one at a time with applySuggestion, in any order, succeeds at
\* every step and leaves the buffer equal to suggested once none is pending.
C18_SequentialAcceptance ==
    call.op = "applySuggestion" =>
        /\ ret.success
        /\ suggestions = <<>> => doc = call.suggestedText

-----------------------------------------------------------------------------
(* SpecValidate: one call of the Position Validator, on every buffer, range    *)
(* and expected text                                                           *)

ValidateDocs == TextsUpTo({"a", " "}, MaxDocLen)
ExpectedTexts ==
    {None} \cup {Some(t) : t \in TextsUpTo({"a", " ", "\t"}, MaxDocLen + 1)}

InitValidate ==
    /\ doc \in ValidateDocs
    /\ suggestions = <<>>
    /\ call = [op |-> "init"]
    /\ ret = NoResult
    /\ pre = doc
    /\ dispatched = 0
    /\ notice = "none"
    /\ paragraphChanges = <<>>

\* validatePosition only reads the buffer
ValidatePosition(from, to, expectedText) ==
    /\ call.op = "init"
    /\ call' = [op |-> "validatePosition", from |-> from, to |-> to,
                expectedText |-> expectedText]
    /\ ret' = validatePosition(doc, from, to, expectedText)
    /\ pre' = doc
    /\ UNCHANGED <<doc, suggestions, dispatched, notice, paragraphChanges>>

NextValidate ==
    /\ call.op = "init"
    /\ \E from \in Positions, to \in Positions, expectedText \in ExpectedTexts :
          ValidatePosition(from, to, expectedText)

SpecValidate == InitValidate /\ [][NextValidate]_vars

\* the maximal runs of non-whitespace characters of a text, in order; two texts
\* are equal after collapsing whitespace runs and trimming iff these lists agree
RECURSIVE wordsFrom(_, _, _)
wordsFrom(s, i, current) ==
    IF i > Len(s) THEN (IF current = <<>> THEN <<>> ELSE <<current>>)
    ELSE IF s[i] \in Blanks
         THEN (IF current = <<>> THEN <<>> ELSE <<current>>) \o wordsFrom(s, i + 1, <<>>)
         ELSE wordsFrom(s, i + 1, Append(current, s[i]))

wordsOf(s) == wordsFrom(s, 1, <<>>)

\* C6. Validator decision: validatePosition returns valid=true exactly when
\* 0 <= from <= to <= bufferLength and expectedText is absent, or equals the buffer
\* text at [from,to), or equals it after collapsing whitespace runs and trimming;
\* a text mismatch reports the actual and the expected text; the buffer is unchanged.
C6_ValidatorDecision ==
    call.op = "validatePosition" =>
        LET inBounds == 0 <= call.from /\ call.from <= call.to /\ call.to <= Len(doc)
            actual == SubSeq(doc, call.from + 1, call.to)
            accepted == /\ inBounds
                        /\ \/ call.expectedText = None
                           \/ actual = call.expectedText[1]
                           \/ wordsOf(actual) = wordsOf(call.expectedText[1])
        IN  /\ ret.valid = accepted
            /\ (inBounds /\ ~accepted) =>
                   /\ ret.actualText = Some(actual)
                   /\ ret.expectedText = call.expectedText
            /\ doc = pre

\* expected "a  a" was accepted against actual "a a", and only after normalization
C6_Witness ==
    /\ call.op = "validatePosition"
    /\ ret.valid
    /\ call.expectedText = Some(<<"a", " ", " ", "a">>)
    /\ SubSeq(doc, call.from + 1, call.to) = <<"a", " ", "a">>

-----------------------------------------------------------------------------
(* SpecRecover: a range is captured, text is inserted before it, and Position  *)
(* Recovery searches for the captured text                                     *)

InitRecover ==
    /\ doc \in Docs
    /\ suggestions = <<>>
    /\ call = [op |-> "init"]
    /\ ret = None
    /\ pre = doc
    /\ dispatched = 0
    /\ notice = "none"
    /\ paragraphChanges = <<>>

\* generateSimpleReplacement over a selection [from,to) of the buffer
Capture(from, to) ==
    /\ call.op = "init"
    /\ from <= to /\ to <= Len(doc)
    /\ suggestions' = <<[id |-> 1, from |-> from, to |-> to,
                         originalText |-> textBetween(doc, from, to),
                         suggestedText |-> <<"b">>, type |-> "replace", explanation |-> None]>>
    /\ call' = [op |-> "capture", shift |-> 0]
    /\ UNCHANGED <<doc, ret, pre, dispatched, notice, paragraphChanges>>

\* the user types text at an offset at or before the captured range
InsertBefore(at, text) ==
    /\ call.op \in {"capture", "insert"}
    /\ at <= suggestions[1].from + call.shift
    /\ Len(doc) + Len(text) <= MaxDocLen + MaxTextLen
    /\ doc' = SubSeq(doc, 1, at) \o text \o SubSeq(doc, at + 1, Len(doc))
    /\ call' = [op |-> "insert", shift |-> call.shift + Len(text)]
    /\ UNCHANGED <<suggestions, ret, pre, dispatched, notice, paragraphChanges>>

FindTextPosition ==
    /\ call.op \in {"capture", "insert"}
    /\ call' = [op |-> "findTextPosition", shift |-> call.shift]
    /\ ret' = findTextPosition(doc, suggestions[1].originalText, 0, FALSE, TRUE)
    /\ pre' = doc
    /\ UNCHANGED <<doc, suggestions, dispatched, notice, paragraphChanges>>

NextRecover ==
    \/ \E from \in 0..MaxDocLen, to \in 0..MaxDocLen : Capture(from, to)
    \/ \E at \in 0..(MaxDocLen + MaxTextLen),
          text \in TextsUpTo(DocChars, MaxTextLen) \ {<<>>} : InsertBefore(at, text)
    \/ FindTextPosition

SpecRecover == InitRecover /\ [][NextRecover]_vars

\* C7. Recovery correctness: after text was inserted before the captured range,
\* findTextPosition(originalText, 0) finds the text by exact substring search and
\* returns a range whose current buffer text equals originalText character for
\* character.
C7_RecoveryCorrectness ==
    call.op = "findTextPosition" =>
        /\ ret # None
        /\ 0 <= ret[1].from /\ ret[1].to <= Len(doc)
        /\ SubSeq(doc, ret[1].from + 1, ret[1].to) = suggestions[1].originalText
        /\ ret[1].from <= suggestions[1].from + call.shift

\* the captured text was found at its shifted location
C7_Witness ==
    /\ call.op = "findTextPosition"
    /\ call.shift > 0
    /\ suggestions[1].originalText # <<>>
    /\ ret # None
    /\ ret[1].from = suggestions[1].from + call.shift
    /\ SubSeq(doc, ret[1].from + 1, ret[1].to) = suggestions[1].originalText

-----------------------------------------------------------------------------
(* SpecSearch: one call of Position Recovery, on every buffer, with every      *)
(* non-empty search text, start offset and option                              *)

SearchTexts ==
    (TextsUpTo(DocChars, MaxTextLen) \ {<<>>}) \cup {<<"a", " ", "a">>}

\* every short buffer, and one that repeats a phrase so that occurrences overlap
SearchDocs == Docs \cup {<<"b", "a", " ", "a", " ", "a">>}

InitSearch ==
    /\ doc \in SearchDocs
    /\ suggestions = <<>>
    /\ call = [op |-> "init"]
    /\ ret = None
    /\ pre = doc
    /\ dispatched = 0
    /\ notice = "none"
    /\ paragraphChanges = <<>>

\* findTextPosition only reads the buffer
Search(searchText, startFrom, wholeWord, fuzzyMatch) ==
    /\ call.op = "init"
    /\ startFrom <= Len(doc)
    /\ call' = [op |-> "findTextPosition", searchText |-> searchText,
                startFrom |-> startFrom, wholeWord |-> wholeWord,
                fuzzyMatch |-> fuzzyMatch]
    /\ ret' = findTextPosition(doc, searchText, startFrom, wholeWord, fuzzyMatch)
    /\ pre' = doc
    /\ UNCHANGED <<doc, suggestions, dispatched, notice, paragraphChanges>>

NextSearch ==
    /\ call.op = "init"
    /\ \E searchText \in SearchTexts, startFrom \in 0..MaxDocLen,
          wholeWord \in BOOLEAN, fuzzyMatch \in BOOLEAN :
              Search(searchText, startFrom, wholeWord, fuzzyMatch)

SpecSearch == InitSearch /\ [][NextSearch]_vars

\* C16. Recovery soundness: with the default options (no whole-word constraint,
\* normalized fallback enabled), a range returned by findTextPosition satisfies
\* startFrom <= from <= to <= bufferLength and the buffer text at [from,to) equals
\* the search text exactly or after whitespace normalization; null is returned
\* only when the text from startFrom on holds no match of either kind.
C16_RecoverySoundness ==
    (call.op = "findTextPosition" /\ ~call.wholeWord /\ call.fuzzyMatch) =>
        IF ret # None
        THEN /\ call.startFrom <= ret[1].from
             /\ ret[1].from <= ret[1].to
             /\ ret[1].to <= Len(doc)
             /\ sameText(SubSeq(doc, ret[1].from + 1, ret[1].to), call.searchText)
        ELSE ~occursIn(SubSeq(doc, call.startFrom + 1, Len(doc)), call.searchText)

\* the least member of a non-empty set of numbers
least(S) == CHOOSE k \in S : \A m \in S : k <= m

\* searchText stands in d at offset i as a whole word: the characters before
\* and after it are whitespace or an edge of the buffer
wholeWordAt(d, searchText, i) ==
    /\ i + Len(searchText) <= Len(d)
    /\ SubSeq(d, i + 1, i + Len(searchText)) = searchText
    /\ (i = 0 \/ isSpace(d[i]))
    /\ (i + Len(searchText) = Len(d) \/ isSpace(d[i + Len(searchText) + 1]))

\* C29. Whole-word search: for every buffer, non-empty needle and start offset,
\* findTextPosition with wholeWord requested returns the first occurrence of
\* the needle at or after the start offset whose preceding and following
\* characters are whitespace or a buffer edge, and null only when there is none.
C29_WholeWord ==
    (call.op = "findTextPosition" /\ call.wholeWord) =>
        LET hits == {i \in call.startFrom..Len(doc) : wholeWordAt(doc, call.searchText, i)}
        IN  IF hits = {}
            THEN ret = None
            ELSE ret = Some([from |-> least(hits), to |-> least(hits) + Len(call.searchText)])

-----------------------------------------------------------------------------
(* Spec: the editor pane.  The AI sidebar hands over suggestions computed from *)
(* a selection of the buffer, the user keeps typing, and accepts or rejects    *)
(* pending suggestions in any order.                                           *)

Replacements == {<<>>, <<"b">>}

\* generateSimpleReplacement(text of [from,to), suggestedText, from, to)
generateSimpleReplacement(originalText, suggestedText, from, to) ==
    [id |-> 1, from |-> from, to |-> to, originalText |-> originalText,
     suggestedText |-> suggestedText, type |-> "replace", explanation |-> None]

\* generateExpansionSuggestion(addedText, position)
generateExpansionSuggestion(addedText, position) ==
    [id |-> 1, from |-> position, to |-> position, originalText |-> <<>>,
     suggestedText |-> addedText, type |-> "add", explanation |-> None]

\* the editor's selection, or the whole document when nothing is selected
Selections(d) ==
    {p \in (0..Len(d)) \X (0..Len(d)) : p[1] < p[2]} \cup {<<0, Len(d)>>}

\* What processAIFeedback can hand over for buffer d: one whole-selection
\* replacement, one expansion after the selection, or one replacement for each of
\* two differing stretches of the selection, in document order.
Handovers(d) ==
    {<<generateSimpleReplacement(textBetween(d, sel[1], sel[2]), r, sel[1], sel[2])>> :
        sel \in Selections(d), r \in Replacements}
    \cup {<<generateExpansionSuggestion(<<"b">>, sel[2])>> : sel \in Selections(d)}
    \cup {<<generateSimpleReplacement(textBetween(d, q[1], q[2]), <<"b">>, q[1], q[2]),
            [generateSimpleReplacement(textBetween(d, q[3], q[4]), r, q[3], q[4])
                EXCEPT !.id = 2]>> :
             q \in {p \in (0..Len(d)) \X (0..Len(d)) \X (0..Len(d)) \X (0..Len(d)) :
                       p[1] < p[2] /\ p[2] <= p[3] /\ p[3] < p[4]},
             r \in Replacements}

Init ==
    /\ doc \in Docs
    /\ suggestions = <<>>
    /\ call = [op |-> "init"]
    /\ ret = <<>>
    /\ pre = doc
    /\ dispatched = 0
    /\ notice = "none"
    /\ paragraphChanges = <<>>

\* onSuggestionsChange={setSuggestions}
SetSuggestions(list) ==
    /\ Len(doc) <= MaxDocLen
    /\ suggestions' = list
    /\ call' = [op |-> "setSuggestions"]
    /\ ret' = <<>>
    /\ pre' = doc
    /\ dispatched' = 0
    /\ UNCHANGED <<doc, notice, paragraphChanges>>

\* a keystroke: one character typed at, or deleted from, any offset
UserEdit(at, text, removed) ==
    /\ at + removed <= Len(doc)
    /\ Len(doc) + Len(text) - removed <= MaxDocLen
    /\ doc' = SubSeq(doc, 1, at) \o text \o SubSeq(doc, at + removed + 1, Len(doc))
    /\ call' = [op |-> "edit"]
    /\ ret' = <<>>
    /\ pre' = doc
    /\ dispatched' = 1
    /\ UNCHANGED <<suggestions, notice, paragraphChanges>>

\* a handler ran: its effect on the pane, and a record of the call
Ran(op, id, h) ==
    /\ call' = [op |-> op, id |-> id, pending |-> suggestions]
    /\ doc' = h.doc
    /\ suggestions' = h.suggestions
    /\ notice' = h.notice
    /\ UNCHANGED paragraphChanges
    /\ ret' = h.committed
    /\ dispatched' = h.dispatched
    /\ pre' = doc

HandleAcceptSuggestion(id) ==
    /\ findById(suggestions, id) # None
    /\ Ran("handleAcceptSuggestion", id,
           handleAcceptSuggestion(doc, suggestions, findById(suggestions, id)[1]))

HandleIgnoreSuggestion(id) ==
    /\ findById(suggestions, id) # None
    /\ Ran("handleIgnoreSuggestion", id, handleIgnoreSuggestion(doc, suggestions, id))

HandleAcceptAll ==
    /\ suggestions # <<>>
    /\ Ran("handleAcceptAll", 0, handleAcceptAll(doc, suggestions))

HandleRejectAll ==
    /\ suggestions # <<>>
    /\ Ran("handleRejectAll", 0, handleRejectAll(doc, suggestions))

Next ==
    \/ \E list \in Handovers(doc) : SetSuggestions(list)
    \/ \E at \in 0..MaxDocLen, c \in DocChars : UserEdit(at, <<c>>, 0)
    \/ \E at \in 0..MaxDocLen : UserEdit(at, <<>>, 1)
    \/ \E id \in 1..2 : HandleAcceptSuggestion(id)
    \/ \E id \in 1..2 : HandleIgnoreSuggestion(id)
    \/ HandleAcceptAll
    \/ HandleRejectAll

Spec == Init /\ [][Next]_vars

\* C3: no accept, single or accept-all, commits at a stored range of the buffer
\* whose text does not match the suggestion's originalText (exactly or after
\* whitespace normalization): a stale suggestion is revalidated or relocated first.
C3_AcceptRevalidates ==
    call.op \in {"handleAcceptSuggestion", "handleAcceptAll"} =>
        \A i \in DOMAIN ret : matchesAt(pre, ret[i])

\* C10: rejecting one suggestion removes exactly that suggestion and keeps every
\* other pending suggestion, in order; rejecting all empties the pending list;
\* neither changes the buffer text nor dispatches a document change.
C10_RejectionNoOp ==
    /\ call.op = "handleIgnoreSuggestion" =>
        /\ doc = pre /\ dispatched = 0
        /\ \A i \in DOMAIN suggestions : suggestions[i].id # call.id
        /\ \A i \in DOMAIN call.pending :
               call.pending[i].id # call.id =>
                   \E j \in DOMAIN suggestions : suggestions[j] = call.pending[i]
        /\ Len(suggestions) =
               Cardinality({i \in DOMAIN call.pending : call.pending[i].id # call.id})
        /\ \A i, j \in DOMAIN suggestions :
               i < j => \E k, l \in DOMAIN call.pending :
                            /\ k < l
                            /\ call.pending[k] = suggestions[i]
                            /\ call.pending[l] = suggestions[j]
    /\ call.op = "handleRejectAll" =>
        doc = pre /\ dispatched = 0 /\ suggestions = <<>>

\* one of two pending suggestions, stale after an edit, is rejected
C10_Witness ==
    /\ call.op = "handleIgnoreSuggestion"
    /\ Len(call.pending) = 2
    /\ Len(suggestions) = 1
    /\ \E i \in DOMAIN call.pending :
           call.pending[i].id = call.id /\ ~matchesAt(doc, call.pending[i])

-----------------------------------------------------------------------------
(* SpecSentence: processAIFeedback, the sentence mode of grammar and agent     *)

MaxSentences == 3
MinSentenceLen == 50

Terminators == {".", "!", "?"}

\* the end of the run of characters of class cls that starts at offset at
RECURSIVE runEnd(_, _, _)
runEnd(text, at, cls) ==
    IF at < Len(text) /\ text[at + 1] \in cls THEN runEnd(text, at + 1, cls) ELSE at

\* the exec loop over /[.!?]+(?:\s+|$)/g: the pieces substring(lastIndex, end of
\* match), then the rest of the text when the last match ends before it
RECURSIVE splitFrom(_, _, _)
splitFrom(text, at, lastIndex) ==
    LET marks == {k \in at..(Len(text) - 1) : text[k + 1] \in Terminators}
    IN  IF marks = {}
        THEN IF lastIndex < Len(text)
             THEN <<substring(text, lastIndex, Len(text))>> ELSE <<>>
        ELSE LET first == CHOOSE k \in marks : \A m \in marks : k <= m
                 stop == runEnd(text, first, Terminators)
                 end == runEnd(text, stop, Blanks)
             IN  IF stop = Len(text) \/ end > stop
                 THEN <<substring(text, lastIndex, end)>> \o splitFrom(text, end, end)
                 ELSE splitFrom(text, stop, lastIndex)

\* the per-sentence loop: a replace for every pair that differs after trim
RECURSIVE perSentence(_, _, _, _)
perSentence(originalSentences, suggestedSentences, i, currentPos) ==
    IF i > Len(originalSentences) THEN <<>>
    ELSE LET origSent == originalSentences[i]
             suggSent == suggestedSentences[i]
             rest == perSentence(originalSentences, suggestedSentences, i + 1,
                                 currentPos + Len(origSent))
         IN  IF trim(origSent) # trim(suggSent)
             THEN <<[id |-> i, from |-> currentPos, to |-> currentPos + Len(origSent),
                     originalText |-> origSent, suggestedText |-> suggSent,
                     type |-> "replace", explanation |-> None]>> \o rest
             ELSE rest

\* splitBySentences that returns the per-sentence list however short it is
splitBySentencesPerPair(originalText, aiSuggestion, from, to) ==
    LET originalSentences == splitFrom(originalText, 0, 0)
        suggestedSentences == splitFrom(aiSuggestion, 0, 0)
    IN  IF Len(originalSentences) # Len(suggestedSentences)
           \/ Len(originalText) < MinSentenceLen
        THEN <<generateSimpleReplacement(originalText, aiSuggestion, from, to)>>
        ELSE perSentence(originalSentences, suggestedSentences, 1, from)

splitBySentences(originalText, aiSuggestion, from, to) ==
    LET originalSentences == splitFrom(originalText, 0, 0)
        suggestedSentences == splitFrom(aiSuggestion, 0, 0)
        list == perSentence(originalSentences, suggestedSentences, 1, from)
    IN  IF Len(originalSentences) # Len(suggestedSentences)
           \/ Len(originalText) < MinSentenceLen
        THEN <<generateSimpleReplacement(originalText, aiSuggestion, from, to)>>
        ELSE IF Len(list) = 0 \/ Len(list) = 1
        THEN <<generateSimpleReplacement(originalText, aiSuggestion, from, to)>>
        ELSE list

processAIFeedback(originalText, aiSuggestion, from, to, mode) ==
    IF mode = "expand"
    THEN <<generateExpansionSuggestion(aiSuggestion, to)>>
    ELSE IF mode = "grammar" \/ mode = "agent"
    THEN splitBySentences(originalText, aiSuggestion, from, to)
    ELSE <<generateSimpleReplacement(originalText, aiSuggestion, from, to)>>

Modes == {"grammar", "rewrite", "expand", "agent", "evaluate"}

\* n copies of c
pad(c, n) == [k \in 1..n |-> c]

\* short sentences, one that differs from "a. " in whitespace only, a tail
\* without terminator, and a sentence of the minimum length
SentenceBlocks ==
    {<<"a", ".", " ">>, <<"b", "!", " ">>, <<"a", ".", " ", " ">>, <<"b">>,
     pad("a", MinSentenceLen) \o <<"?", " ">>}

RECURSIVE joinBlocks(_)
joinBlocks(blocks) ==
    IF blocks = <<>> THEN <<>> ELSE Head(blocks) \o joinBlocks(Tail(blocks))

SentenceTexts(max) ==
    {joinBlocks(b) : b \in UNION {[1..n -> SentenceBlocks] : n \in 0..max}}

InitSentence ==
    /\ doc = <<>>
    /\ suggestions = <<>>
    /\ call = [op |-> "init"]
    /\ ret = None
    /\ pre = <<>>
    /\ dispatched = 0
    /\ notice = "none"
    /\ paragraphChanges = <<>>

\* the selection [from, from + len) holds originalText
ProcessAIFeedback(originalText, aiSuggestion, from, mode) ==
    /\ call' = [op |-> "processAIFeedback", originalText |-> originalText,
                aiSuggestion |-> aiSuggestion, from |-> from,
                to |-> from + Len(originalText), mode |-> mode]
    /\ suggestions' = processAIFeedback(originalText, aiSuggestion, from,
                                        from + Len(originalText), mode)
    /\ UNCHANGED <<doc, ret, pre, dispatched, notice, paragraphChanges>>

NextSentence ==
    /\ call.op = "init"
    /\ \E originalText \in SentenceTexts(MaxSentences),
          aiSuggestion \in SentenceTexts(MaxSentences),
          from \in 0..1, mode \in Modes :
             ProcessAIFeedback(originalText, aiSuggestion, from, mode)

SpecSentence == InitSentence /\ [][NextSentence]_vars

\* the indices of the positionally paired sentences that differ after trim
differingPairs(originalText, aiSuggestion) ==
    LET os == splitFrom(originalText, 0, 0)
        ss == splitFrom(aiSuggestion, 0, 0)
    IN  {i \in DOMAIN os : trim(os[i]) # trim(ss[i])}

\* the input is eligible for sentence mode: equal counts, not short
sentencePaired(originalText, aiSuggestion) ==
    /\ Len(splitFrom(originalText, 0, 0)) = Len(splitFrom(aiSuggestion, 0, 0))
    /\ Len(originalText) >= MinSentenceLen

\* list holds exactly one replace per differing pair, in order, each on the
\* range of its original sentence with the paired suggested sentence
onePerDifferingPair(list, originalText, aiSuggestion, from) ==
    LET os == splitFrom(originalText, 0, 0)
        ss == splitFrom(aiSuggestion, 0, 0)
        differing == differingPairs(originalText, aiSuggestion)
    IN  /\ Len(list) = Cardinality(differing)
        /\ \A i \in differing :
              LET k == Cardinality({j \in differing : j <= i})
              IN  /\ list[k].type = "replace"
                  /\ list[k].originalText = os[i]
                  /\ list[k].suggestedText = ss[i]
                  /\ list[k].from = from + Len(joinBlocks(SubSeq(os, 1, i - 1)))
                  /\ list[k].to = list[k].from + Len(os[i])
                  /\ substring(originalText, list[k].from - from, list[k].to - from) = os[i]

\* list is one replace of the whole selection by the whole suggested text
wholeReplace(list, originalText, aiSuggestion, from, to) ==
    /\ Len(list) = 1
    /\ list[1].type = "replace"
    /\ list[1].from = from
    /\ list[1].to = to
    /\ list[1].originalText = originalText
    /\ list[1].suggestedText = aiSuggestion

\* C26 as stated. Sentence mode: in grammar or agent mode, when original and
\* suggested split into the same number of sentences and original is not
\* shorter than 50, the output holds exactly one replace per paired sentence
\* that differs and none for identical pairs, also when exactly one pair
\* differs; otherwise it is a single replace of [from,to) by the suggested text.
C26_SentenceModeAsStated ==
    (call.op = "processAIFeedback" /\ call.mode \in {"grammar", "agent"}) =>
        IF sentencePaired(call.originalText, call.aiSuggestion)
        THEN onePerDifferingPair(suggestions, call.originalText,
                                 call.aiSuggestion, call.from)
        ELSE wholeReplace(suggestions, call.originalText, call.aiSuggestion,
                          call.from, call.to)

\* C26. Sentence mode: in grammar or agent mode, when original and suggested
\* split into the same number of sentences, original is not shorter than 50
\* and at least two paired sentences differ, the output holds exactly one
\* replace per differing pair, on its original sentence's range; in every
\* other case it is a single replace of [from,to) by the whole suggested text.
C26_SentenceMode ==
    (call.op = "processAIFeedback" /\ call.mode \in {"grammar", "agent"}) =>
        IF /\ sentencePaired(call.originalText, call.aiSuggestion)
           /\ Cardinality(differingPairs(call.originalText, call.aiSuggestion)) >= 2
        THEN onePerDifferingPair(suggestions, call.originalText,
                                 call.aiSuggestion, call.from)
        ELSE wholeReplace(suggestions, call.originalText, call.aiSuggestion,
                          call.from, call.to)

\* three paired sentences, the first identical, the other two different
C26_Witness ==
    /\ call.op = "processAIFeedback"
    /\ call.mode = "grammar"
    /\ sentencePaired(call.originalText, call.aiSuggestion)
    /\ differingPairs(call.originalText, call.aiSuggestion) = {2, 3}
    /\ Len(suggestions) = 2
    /\ suggestions[1].from > call.from


-----------------------------------------------------------------------------
(* SpecAlign: alignParagraphs on two lists of segments                         *)

MaxSegments == 3
SimilarNum == 3
SimilarDen == 10

Newline == "\n"
\* the characters /\s/ matches
Whitespace == Blanks \cup {Newline}

\* toLowerCase on one character
toLowerCase(c) == IF c = "A" THEN "a" ELSE IF c = "B" THEN "b" ELSE c

\* new Set(str.toLowerCase().split(/\s+/)): the maximal runs of other characters,
\* and the empty word when str is empty or starts or ends with whitespace
wordSet(str) ==
    LET low == [k \in 1..Len(str) |-> toLowerCase(str[k])]
        solid(k) == k >= 1 /\ k <= Len(low) /\ low[k] \notin Whitespace
        starts == {k \in 1..Len(low) : solid(k) /\ ~solid(k - 1)}
        stop(k) == CHOOSE j \in k..Len(low) :
                      /\ ~solid(j + 1)
                      /\ \A m \in k..j : solid(m)
        edge == IF low = <<>> \/ ~solid(1) \/ ~solid(Len(low)) THEN {<<>>} ELSE {}
    IN  {SubSeq(low, k, stop(k)) : k \in starts} \cup edge

\* calculateSimilarity as the fraction intersection.size / union.size
calculateSimilarity(str1, str2) ==
    LET words1 == wordSet(str1)
        words2 == wordSet(str2)
    IN  [num |-> Cardinality(words1 \cap words2),
         den |-> Cardinality(words1 \cup words2)]

\* score > bestScore; a score of an empty union is 0
scoreAbove(score, best) ==
    LET s == IF score.den > 0 THEN score ELSE [num |-> 0, den |-> 1]
    IN  s.num * best.den > best.num * s.den

\* the inner for loop over the edited segments: bestMatch (0 for none; indices
\* count from 1) and bestScore
RECURSIVE bestFrom(_, _, _, _, _)
bestFrom(origPara, editedParagraphs, used, i, best) ==
    IF i > Len(editedParagraphs) THEN best
    ELSE IF i \in used THEN bestFrom(origPara, editedParagraphs, used, i + 1, best)
    ELSE LET score == calculateSimilarity(origPara, editedParagraphs[i])
         IN  IF scoreAbove(score, best.score)
             THEN bestFrom(origPara, editedParagraphs, used, i + 1,
                           [match |-> i, score |-> score])
             ELSE bestFrom(origPara, editedParagraphs, used, i + 1, best)

\* the edited segments no original was paired with, as pure insertions
RECURSIVE unusedFrom(_, _, _)
unusedFrom(editedParagraphs, used, i) ==
    IF i > Len(editedParagraphs) THEN <<>>
    ELSE IF i \in used THEN unusedFrom(editedParagraphs, used, i + 1)
    ELSE <<[original |-> <<>>, edited |-> editedParagraphs[i]]>>
         \o unusedFrom(editedParagraphs, used, i + 1)

\* fuzzy matching that pairs an original with its best match whatever the score
RECURSIVE fuzzyAnyScore(_, _, _, _)
fuzzyAnyScore(originalParagraphs, editedParagraphs, k, used) ==
    IF k > Len(originalParagraphs) THEN unusedFrom(editedParagraphs, used, 1)
    ELSE LET origPara == originalParagraphs[k]
             best == bestFrom(origPara, editedParagraphs, used, 1,
                              [match |-> 0, score |-> [num |-> 0, den |-> 1]])
         IN  IF best.match >= 1
             THEN <<[original |-> origPara, edited |-> editedParagraphs[best.match]]>>
                  \o fuzzyAnyScore(originalParagraphs, editedParagraphs, k + 1,
                                   used \cup {best.match})
             ELSE <<[original |-> origPara, edited |-> <<>>]>>
                  \o fuzzyAnyScore(originalParagraphs, editedParagraphs, k + 1, used)

\* the loop over the originals of the fuzzy matching, then the unused edited
RECURSIVE fuzzy(_, _, _, _)
fuzzy(originalParagraphs, editedParagraphs, k, used) ==
    IF k > Len(originalParagraphs) THEN unusedFrom(editedParagraphs, used, 1)
    ELSE LET origPara == originalParagraphs[k]
             best == bestFrom(origPara, editedParagraphs, used, 1,
                              [match |-> 0, score |-> [num |-> 0, den |-> 1]])
         IN  IF best.match >= 1
                /\ scoreAbove(best.score, [num |-> SimilarNum, den |-> SimilarDen])
             THEN <<[original |-> origPara, edited |-> editedParagraphs[best.match]]>>
                  \o fuzzy(originalParagraphs, editedParagraphs, k + 1,
                           used \cup {best.match})
             ELSE <<[original |-> origPara, edited |-> <<>>]>>
                  \o fuzzy(originalParagraphs, editedParagraphs, k + 1, used)

alignParagraphs(originalParagraphs, editedParagraphs) ==
    IF Len(originalParagraphs) = Len(editedParagraphs)
    THEN [i \in 1..Len(originalParagraphs) |->
             [original |-> originalParagraphs[i], edited |-> editedParagraphs[i]]]
    ELSE fuzzy(originalParagraphs, editedParagraphs, 1, {})

\* segments with word overlaps of 0, 1/4, 1/3, 1/2 and 1, one with a capital,
\* one with trailing whitespace and the empty segment
Segments ==
    {<<"a">>, <<"A", " ", "b">>, <<"a", " ", "c", " ", "d">>, <<"b">>,
     <<"b", " ", "c">>, <<"c", " ">>, <<>>}

SegmentLists(max) == UNION {[1..n -> Segments] : n \in 1..max}

InitAlign ==
    /\ doc = <<>>
    /\ suggestions = <<>>
    /\ call = [op |-> "init"]
    /\ ret = None
    /\ pre = <<>>
    /\ dispatched = 0
    /\ notice = "none"
    /\ paragraphChanges = <<>>

AlignParagraphs(originalParagraphs, editedParagraphs) ==
    /\ call' = [op |-> "alignParagraphs", originalParagraphs |-> originalParagraphs,
                editedParagraphs |-> editedParagraphs]
    /\ ret' = alignParagraphs(originalParagraphs, editedParagraphs)
    /\ UNCHANGED <<doc, suggestions, pre, dispatched, notice, paragraphChanges>>

NextAlign ==
    /\ call.op = "init"
    /\ \E originalParagraphs \in SegmentLists(MaxSegments),
          editedParagraphs \in SegmentLists(MaxSegments) :
          AlignParagraphs(originalParagraphs, editedParagraphs)

SpecAlign == InitAlign /\ [][NextAlign]_vars

\* word-overlap similarity above 0.3, counted on the words themselves
similar(a, b) ==
    SimilarDen * Cardinality(wordSet(a) \cap wordSet(b))
        > SimilarNum * Cardinality(wordSet(a) \cup wordSet(b))

\* aligned is originals in order, each with the edited segment matching[k] or,
\* for matching[k] = 0, with an empty one, then the unmatched edited segments
alignedBy(aligned, originals, edits, matching) ==
    LET taken == {matching[k] : k \in DOMAIN originals} \ {0}
        rest == unusedFrom(edits, taken, 1)
    IN  /\ Len(aligned) = Len(originals) + Len(rest)
        /\ \A k \in DOMAIN originals :
              /\ aligned[k].original = originals[k]
              /\ IF matching[k] = 0
                 THEN aligned[k].edited = <<>>
                 ELSE /\ aligned[k].edited = edits[matching[k]]
                      /\ similar(originals[k], edits[matching[k]])
        /\ \A k \in DOMAIN rest : aligned[Len(originals) + k] = rest[k]

\* C27. Paragraph alignment is a partial one-to-one matching: for segment lists
\* of different lengths, alignParagraphs returns each original once, in input
\* order, paired with one edited segment of similarity above 0.3 or with an
\* empty edited segment; each edited segment is in exactly one pair; and the
\* unmatched edited segments come last, each paired with an empty original.
C27_PartialMatching ==
    (/\ call.op = "alignParagraphs"
     /\ Len(call.originalParagraphs) # Len(call.editedParagraphs)) =>
        \E matching \in [DOMAIN call.originalParagraphs ->
                            0..Len(call.editedParagraphs)] :
            /\ \A j, k \in DOMAIN matching :
                  (j # k /\ matching[j] # 0) => matching[j] # matching[k]
            /\ alignedBy(ret, call.originalParagraphs, call.editedParagraphs, matching)

\* two originals and three edited segments: one original matched, one removed
\* although an edited segment shares a word with it, two segments inserted
C27_Witness ==
    /\ call.op = "alignParagraphs"
    /\ Len(call.originalParagraphs) = 2
    /\ Len(call.editedParagraphs) = 3
    /\ Len(ret) = 4
    /\ ret[1].edited # <<>>
    /\ ret[2].edited = <<>>
    /\ \E j \in 1..3 :
          /\ wordSet(call.originalParagraphs[2]) \cap wordSet(call.editedParagraphs[j]) # {}
          /\ ret[3].edited = call.editedParagraphs[j] \/ ret[4].edited = call.editedParagraphs[j]


-----------------------------------------------------------------------------
(* SpecParagraphDiff: generateParagraphChanges on an original and an edited    *)
(* text; the changes it returns are the pending paragraph changes              *)

MaxParagraphBlocks == 5
SentenceSplitLen == 200
SeparatorLen == 2

\* text.split(/\n\n+/), from offset start on
RECURSIVE splitBlankLines(_, _)
splitBlankLines(text, start) ==
    LET breaks == {k \in start..(Len(text) - 2) :
                      text[k + 1] = Newline /\ text[k + 2] = Newline}
    IN  IF breaks = {}
        THEN <<substring(text, start, Len(text))>>
        ELSE <<substring(text, start, least(breaks))>>
             \o splitBlankLines(text, runEnd(text, least(breaks), {Newline}))

\* text.split(/\n/), from offset start on
RECURSIVE splitLines(_, _)
splitLines(text, start) ==
    LET breaks == {k \in start..(Len(text) - 1) : text[k + 1] = Newline}
    IN  IF breaks = {}
        THEN <<substring(text, start, Len(text))>>
        ELSE <<substring(text, start, least(breaks))>>
             \o splitLines(text, least(breaks) + 1)

\* text.match(/[^.!?]+[.!?]+/g), from offset at on: a run of other characters
\* and the run of terminators after it; text outside such pieces is left out
RECURSIVE matchSentences(_, _)
matchSentences(text, at) ==
    LET plain == {k \in at..(Len(text) - 1) : text[k + 1] \notin Terminators}
        marks == IF plain = {} THEN {}
                 ELSE {k \in least(plain)..(Len(text) - 1) : text[k + 1] \in Terminators}
    IN  IF marks = {}
        THEN <<>>
        ELSE LET end == runEnd(text, least(marks), Terminators)
             IN  <<substring(text, least(plain), end)>> \o matchSentences(text, end)

splitIntoParagraphs(text) ==
    LET paragraphs == splitBlankLines(text, 0)
        lines == splitLines(text, 0)
        sentences == matchSentences(text, 0)
    IN  IF Len(paragraphs) = 1 /\ Len(lines) > 1
        THEN lines
        ELSE IF Len(paragraphs) = 1 /\ Len(text) > SentenceSplitLen
        THEN IF sentences = <<>> THEN <<text>> ELSE sentences
        ELSE paragraphs

\* the loop over aligned: the changes from pair i on, currentPos being the
\* position the loop has reached; count is originalParagraphs.length
RECURSIVE changesFrom(_, _, _, _)
changesFrom(aligned, i, currentPos, count) ==
    IF i > Len(aligned) THEN <<>>
    ELSE LET origPara == aligned[i].original
             editedPara == aligned[i].edited
             nextPos == currentPos + Len(origPara)
                        + (IF i - 1 < count - 1 THEN SeparatorLen ELSE 0)
             rest == changesFrom(aligned, i + 1, nextPos, count)
         IN  IF origPara = editedPara
             THEN rest
             ELSE <<[id |-> i, original |-> origPara, edited |-> editedPara,
                     startPos |-> currentPos, endPos |-> currentPos + Len(origPara),
                     applied |-> FALSE, rejected |-> FALSE]>> \o rest

generateParagraphChanges(original, edited, startPos) ==
    LET originalParagraphs == splitIntoParagraphs(original)
        editedParagraphs == splitIntoParagraphs(edited)
        aligned == alignParagraphs(originalParagraphs, editedParagraphs)
    IN  changesFrom(aligned, 1, startPos, Len(originalParagraphs))

ParagraphBlocks == {<<"a">>, <<"b">>, <<Newline>>}

\* a text of more than 200 characters with two sentences
LongTexts ==
    {pad("a", SentenceSplitLen) \o <<".">> \o t : t \in {<<"a", "!">>, <<"b", "!">>}}

ParagraphTexts(max) ==
    {joinBlocks(b) : b \in UNION {[1..n -> ParagraphBlocks] : n \in 0..max}}
    \cup LongTexts

InitParagraphDiff ==
    /\ doc = <<>>
    /\ suggestions = <<>>
    /\ call = [op |-> "init"]
    /\ ret = None
    /\ pre = <<>>
    /\ dispatched = 0
    /\ notice = "none"
    /\ paragraphChanges = <<>>

GenerateParagraphChanges(original, edited, startPos) ==
    /\ call' = [op |-> "generateParagraphChanges", original |-> original,
                edited |-> edited, startPos |-> startPos]
    /\ paragraphChanges' = generateParagraphChanges(original, edited, startPos)
    /\ UNCHANGED <<doc, suggestions, ret, pre, dispatched, notice>>

NextParagraphDiff ==
    /\ call.op = "init"
    /\ \E original \in ParagraphTexts(MaxParagraphBlocks),
          edited \in ParagraphTexts(MaxParagraphBlocks), startPos \in 0..1 :
          GenerateParagraphChanges(original, edited, startPos)

SpecParagraphDiff == InitParagraphDiff /\ [][NextParagraphDiff]_vars

\* C28. Paragraph change positions are exact: each ParagraphChange returned by
\* generateParagraphChanges(original, edited, startPos) with a non-empty
\* original has the text of original at [change.startPos - startPos,
\* change.endPos - startPos) equal to change.original.
C28_PositionsExact ==
    call.op = "generateParagraphChanges" =>
        \A k \in DOMAIN paragraphChanges :
            LET change == paragraphChanges[k]
            IN  change.original # <<>> =>
                    /\ change.endPos - call.startPos <= Len(call.original)
                    /\ SubSeq(call.original, change.startPos - call.startPos + 1,
                              change.endPos - call.startPos) = change.original

-----------------------------------------------------------------------------
(* SpecParagraph: agent mode.  The agent's edit is previewed as paragraph      *)
(* changes over the selection; the user keeps typing and applies or rejects    *)
(* sections one at a time.                                                     *)

\* paragraphChanges.filter(p => !p.applied && !p.rejected)
isPending(p) == ~p.applied /\ ~p.rejected

\* agentStore.applyParagraph(paragraphId)
applyParagraph(changes, paragraphId) ==
    [i \in DOMAIN changes |->
        IF changes[i].id = paragraphId
        THEN [changes[i] EXCEPT !.applied = TRUE] ELSE changes[i]]

\* agentStore.rejectParagraph(paragraphId)
rejectParagraph(changes, paragraphId) ==
    [i \in DOMAIN changes |->
        IF changes[i].id = paragraphId
        THEN [changes[i] EXCEPT !.rejected = TRUE] ELSE changes[i]]

\* handleApplyParagraph(paragraphId), for the paragraph found under that id:
\* the ApplyResult of applySingleChange, the buffer, the store and the notification
handleApplyParagraph(d, changes, paragraph) ==
    LET result == applySingleChange(d, [from |-> paragraph.startPos,
                                        to |-> paragraph.endPos,
                                        insert |-> Some(paragraph.edited),
                                        delete |-> FALSE, threw |-> FALSE], FALSE)
    IN  [result |-> result,
         paragraphChanges |-> IF result.success
                              THEN applyParagraph(changes, paragraph.id)
                              ELSE changes,
         notice |-> IF result.success THEN "success" ELSE "error"]

\* the edited text the agent returns for a selection: nothing, one word, or the
\* selection with every "a" rewritten
ParagraphEdits(original) ==
    {<<>>, <<"b">>, [k \in DOMAIN original |-> IF original[k] = "a" THEN "b" ELSE original[k]]}

\* What handleSubmit hands to setPendingEdit for buffer d:
\* generateParagraphChanges(response.original, response.edited, selectedText.from)
ParagraphHandovers(d) ==
    UNION {{generateParagraphChanges(textBetween(d, sel[1], sel[2]), edited, sel[1]) :
               edited \in ParagraphEdits(textBetween(d, sel[1], sel[2]))} :
              sel \in Selections(d)}

\* buffers of one section, of two lines, and of two paragraphs
ParagraphDocs ==
    ValidateDocs \cup {<<"a", Newline, "a">>, <<"a", Newline, Newline, "a">>}

InitParagraph ==
    /\ doc \in ParagraphDocs
    /\ suggestions = <<>>
    /\ call = [op |-> "init"]
    /\ ret = NoResult
    /\ pre = doc
    /\ dispatched = 0
    /\ notice = "none"
    /\ paragraphChanges = <<>>

\* setPendingEdit({..., paragraphChanges})
SetPendingEdit(changes) ==
    /\ Len(doc) <= MaxDocLen + 1
    /\ \A i \in DOMAIN paragraphChanges : ~isPending(paragraphChanges[i])
    /\ paragraphChanges' = changes
    /\ call' = [op |-> "setPendingEdit"]
    /\ ret' = NoResult
    /\ pre' = doc
    /\ dispatched' = 0
    /\ UNCHANGED <<doc, suggestions, notice>>

HandleApplyParagraph(i) ==
    /\ i \in DOMAIN paragraphChanges
    /\ isPending(paragraphChanges[i])
    /\ LET h == handleApplyParagraph(doc, paragraphChanges, paragraphChanges[i])
       IN  /\ call' = [op |-> "handleApplyParagraph", id |-> paragraphChanges[i].id]
           /\ doc' = h.result.doc
           /\ paragraphChanges' = h.paragraphChanges
           /\ notice' = h.notice
           /\ ret' = ApplyResult(h.result)
           /\ dispatched' = h.result.dispatched
           /\ pre' = doc
           /\ UNCHANGED suggestions

HandleRejectParagraph(i) ==
    /\ i \in DOMAIN paragraphChanges
    /\ isPending(paragraphChanges[i])
    /\ call' = [op |-> "handleRejectParagraph", id |-> paragraphChanges[i].id]
    /\ paragraphChanges' = rejectParagraph(paragraphChanges, paragraphChanges[i].id)
    /\ notice' = "none"
    /\ ret' = NoResult
    /\ dispatched' = 0
    /\ pre' = doc
    /\ UNCHANGED <<doc, suggestions>>

\* pendingChanges.forEach(paragraph => handleApplyParagraph(paragraph.id)):
\* one applySingleChange, and so one dispatch, per pending section, in list order
RECURSIVE applyEach(_, _, _)
applyEach(acc, pendingChanges, k) ==
    IF k > Len(pendingChanges)
    THEN acc
    ELSE LET h == handleApplyParagraph(acc.doc, acc.paragraphChanges, pendingChanges[k])
         IN  applyEach([doc |-> h.result.doc,
                        paragraphChanges |-> h.paragraphChanges,
                        notice |-> h.notice,
                        dispatched |-> acc.dispatched + h.result.dispatched],
                       pendingChanges, k + 1)

handleApplyAll(d, changes) ==
    applyEach([doc |-> d, paragraphChanges |-> changes, notice |-> "none",
               dispatched |-> 0],
              SelectSeq(changes, isPending), 1)

HandleApplyAll ==
    /\ \E i \in DOMAIN paragraphChanges : isPending(paragraphChanges[i])
    /\ LET h == handleApplyAll(doc, paragraphChanges)
       IN  /\ call' = [op |-> "handleApplyAll"]
           /\ doc' = h.doc
           /\ paragraphChanges' = h.paragraphChanges
           /\ notice' = h.notice
           /\ ret' = NoResult
           /\ dispatched' = h.dispatched
           /\ pre' = doc
           /\ UNCHANGED suggestions

\* the timer handleApplyAll starts: setPendingEdit(null)
ClearPendingEdit ==
    /\ call.op = "handleApplyAll"
    /\ call' = [op |-> "setPendingEdit"]
    /\ paragraphChanges' = <<>>
    /\ ret' = NoResult
    /\ pre' = doc
    /\ dispatched' = 0
    /\ UNCHANGED <<doc, suggestions, notice>>

NextParagraph ==
    \/ \E changes \in ParagraphHandovers(doc) : SetPendingEdit(changes)
    \/ \E at \in 0..MaxDocLen : UserEdit(at, <<"a">>, 0)
    \/ \E at \in 0..MaxDocLen : UserEdit(at, <<>>, 1)
    \/ \E i \in 1..(MaxDocLen + 1) : HandleApplyParagraph(i)
    \/ \E i \in 1..(MaxDocLen + 1) : HandleRejectParagraph(i)
    \/ HandleApplyAll
    \/ ClearPendingEdit

SpecParagraph == InitParagraph /\ [][NextParagraph]_vars

\* C11. Suggestion lifecycle: once an accept action on a pending suggestion has
\* completed, that suggestion is no longer pending, whether its application
\* succeeded or failed, and a failed application has raised an error; for word
\* suggestions (handleAcceptSuggestion, handleAcceptAll) and for paragraph
\* changes (handleApplyParagraph).
C11_Lifecycle ==
    /\ call.op = "handleAcceptSuggestion" =>
           /\ \A i \in DOMAIN suggestions : suggestions[i].id # call.id
           /\ ret = <<>> => notice = "error"
    /\ call.op = "handleAcceptAll" =>
           /\ suggestions = <<>>
           /\ ret = <<>> => notice = "error"
    /\ call.op = "handleApplyParagraph" =>
           /\ \A i \in DOMAIN paragraphChanges :
                  paragraphChanges[i].id = call.id => ~isPending(paragraphChanges[i])
           /\ ~ret.success => notice = "error"

\* C22. One commit per accept-all: every accept-all action hands all of its
\* edits to the buffer in one text-changing transaction, so it never leaves the
\* buffer with only some of the accepted edits applied; for word suggestions
\* (handleAcceptAll) and for paragraph changes (handleApplyAll).
C22_OneCommit ==
    /\ call.op = "handleAcceptAll" => dispatched <= 1
    /\ call.op = "handleApplyAll" =>
          /\ dispatched <= 1
          /\ \/ doc = pre
             \/ \A i \in DOMAIN paragraphChanges : ~isPending(paragraphChanges[i])

=============================================================================
